---- MODULE Spec2Model ----
(***************************************************************************)
(* Peer-to-peer networking core of the TRI-V3 node: token-bucket rate      *)
(* limiter (rate_limiter.py), wire codec (protocol.py) and connection      *)
(* manager (connection_manager.py).                                        *)
(*                                                                         *)
(* Time is counted in whole clock units and token amounts in whole tokens. *)
(* The numeric settings of the rate limiter are scaled down so that a      *)
(* bucket can be drained and a request window filled in a few steps; each  *)
(* scaled setting names the source value next to it, and the relations     *)
(* between the settings that the code relies on are kept:                  *)
(*   capacity = rate * burst_multiplier, global capacity > peer capacity,  *)
(*   deque maxlen = max_requests_per_window, block_duration > window,      *)
(*   capacity + window * rate > max_requests_per_window.                   *)
(***************************************************************************)
EXTENDS Integers, Sequences, FiniteSets, TLC

(***************************************************************************)
(* Bounds of the model                                                     *)
(***************************************************************************)
\* the clock never reads more than MaxTime
MaxTime == 4
\* largest backward adjustment of the wall clock (time.time() is not monotonic)
MaxBack == 1
\* number of backward adjustments of the wall clock within the horizon
MaxAdjust == 1
\* frames the remote peers send, all connections together
MaxFrames == 2
\* declared length of an ordinary frame
SmallLen == 64

NodeIds == {"n1"}
\* sizes passed to is_allowed: a unit frame and a frame larger than a peer's
\* bandwidth burst
Sizes == {1, 3}
\* message types passed to is_allowed (recorded in the history, never read)
RLMessageTypes == {"block", "heartbeat"}

(***************************************************************************)
(* Settings of RateLimiter.__init__ (scaled, see the header)               *)
(***************************************************************************)
\* source: 100 messages per second
default_message_rate == 1
\* source: 1024 * 1024 bytes per second
default_bandwidth_rate == 1
\* source: 2.0
burst_multiplier == 2
\* source: 10, the factor `* 10` of both global buckets
global_multiplier == 3
\* source: 60 seconds
request_window == 3
\* source: 1000
max_requests_per_window == 3
\* source: deque(maxlen=1000) of PeerLimits.request_history
history_maxlen == 3
\* source: 300 seconds
block_duration == 4

Min(a, b) == IF a < b THEN a ELSE b

(***************************************************************************)
(* State                                                                   *)
(***************************************************************************)
VARIABLES
    now,                        \* the reading time.time() returns
    global_message_bucket,      \* RateLimiter.global_message_bucket
    global_bandwidth_bucket,    \* RateLimiter.global_bandwidth_bucket
    rl_peers,                   \* RateLimiter.peers: node_id -> PeerLimits
    rl_ret,                     \* the last rate limiter call and what it returned
    adjustments,                \* how often the wall clock has been set back
    allowed_log,                \* history variable: per registered peer, the clock
                                \* readings of the calls is_allowed answered True
                                \* that lie inside the current request window
    codec_pc,                   \* where the codec run stands
    codec_in,                   \* the message a caller sets out to send
    codec_wire,                 \* the payload bytes between encode and decode
    codec_out,                  \* what decode_message returned or raised
    conns,                      \* per transport connection: the stream, the
                                \* coroutine serving it and its PeerConnection
    cm_peers,                   \* ConnectionManager.peers: node_id -> connection
    pending_connections,        \* ConnectionManager.pending_connections
    server,                     \* ConnectionManager.server and the tasks start() creates
    stop_pc,                    \* where a call of ConnectionManager.stop() stands
    bc,                         \* where a call of broadcast_message stands
    blockchain,                 \* the Blockchain the node's components share
    sync_state,                 \* SyncManager.state, a SyncState
    sync_runs,                  \* per caller: where its call of sync_blockchain stands
    net,                        \* where a call of initialize_network stands
    eh                          \* the ErrorHandler and the NetworkMetrics it reports to

rlVars == <<global_message_bucket, global_bandwidth_bucket, rl_peers, rl_ret, allowed_log>>
clockVars == <<now, adjustments>>
codecVars == <<codec_pc, codec_in, codec_wire, codec_out>>
cmCtl == <<server, stop_pc, bc>>
cmVars == <<conns, cm_peers, pending_connections, cmCtl>>
syncVars == <<blockchain, sync_state, sync_runs>>
nodeVars == <<net, eh>>
vars == <<clockVars, rlVars, codecVars, cmVars, syncVars, nodeVars>>

(***************************************************************************)
(* TokenBucket                                                             *)
(***************************************************************************)
\* TokenBucket.__post_init__: a new bucket is full and stamped with the clock
TokenBucket(capacity, fill_rate, t) ==
    [capacity |-> capacity, fill_rate |-> fill_rate,
     tokens |-> capacity, last_update |-> t]

\* consume with the deduction made before the test: a refused call still
\* takes its tokens
consume_deducts_when_refused(b, n, t) ==
    LET elapsed == t - b.last_update
        filled == Min(b.capacity, b.tokens + elapsed * b.fill_rate)
    IN  [bucket |-> [b EXCEPT !.tokens = filled - n, !.last_update = t],
         ok |-> n <= filled]

\* TokenBucket.consume(tokens) at clock reading t: the bucket after the call
\* and the value returned
consume(b, n, t) ==
    LET elapsed == t - b.last_update
        filled == Min(b.capacity, b.tokens + elapsed * b.fill_rate)
    IN  IF n <= filled
        THEN [bucket |-> [b EXCEPT !.tokens = filled - n, !.last_update = t],
              ok |-> TRUE]
        ELSE [bucket |-> [b EXCEPT !.tokens = filled, !.last_update = t],
              ok |-> FALSE]

(***************************************************************************)
(* PeerLimits and RateLimiter                                              *)
(***************************************************************************)
\* PeerLimits as add_peer builds it. request_history holds the first
\* component (the clock reading) of each (now, message_type, size) entry:
\* the other two components are never read.
PeerLimits(node_id, t) ==
    [node_id |-> node_id,
     message_bucket |->
        TokenBucket(default_message_rate * burst_multiplier, default_message_rate, t),
     bandwidth_bucket |->
        TokenBucket(default_bandwidth_rate * burst_multiplier, default_bandwidth_rate, t),
     request_history |-> << >>,
     blocked_until |-> 0]

\* deque.append on a deque with maxlen: a full deque drops its leftmost entry
deque_append(h, x) ==
    IF Len(h) >= history_maxlen THEN Append(Tail(h), x) ELSE Append(h, x)

\* the while loop of _check_request_frequency: popleft while the oldest
\* entry is older than the window
RECURSIVE prune_history(_, _)
prune_history(h, window_start) ==
    IF Len(h) > 0 /\ h[1] < window_start
    THEN prune_history(Tail(h), window_start)
    ELSE h

\* _block_peer without the longer duration for a peer that is still blocked
_block_peer_same_duration(peer, t) ==
    [peer EXCEPT !.blocked_until = t + block_duration]

\* RateLimiter._block_peer at clock reading t
_block_peer(peer, t) ==
    IF peer.blocked_until > t
    THEN [peer EXCEPT !.blocked_until = t + (block_duration * 2)]
    ELSE [peer EXCEPT !.blocked_until = t + block_duration]

\* RateLimiter._check_request_frequency at clock reading t
_check_request_frequency(peer, t) ==
    LET pruned == [peer EXCEPT !.request_history =
                        prune_history(peer.request_history, t - request_window)]
    IN  IF Len(pruned.request_history) > max_requests_per_window
        THEN _block_peer(pruned, t)
        ELSE pruned

RLResult(gm, gb, peers, allowed, reason) ==
    [gm |-> gm, gb |-> gb, peers |-> peers, allowed |-> allowed, reason |-> reason]

\* the blocked test with the comparison turned round
is_blocked_reversed(peer, t) == peer.blocked_until < t

\* is_allowed, "Check if peer is blocked"
is_blocked(peer, t) == peer.blocked_until > t

\* is_allowed, "Check global limits first": consume 1 from the global
\* message bucket, then size from the global bandwidth bucket
check_global_limits(gm, gb, size, t) ==
    LET c1 == consume(gm, 1, t) IN
    IF ~c1.ok
    THEN [gm |-> c1.bucket, gb |-> gb, ok |-> FALSE,
          reason |-> "Global message rate limit exceeded"]
    ELSE
    LET c2 == consume(gb, size, t) IN
    IF ~c2.ok
    THEN [gm |-> c1.bucket, gb |-> c2.bucket, ok |-> FALSE,
          reason |-> "Global bandwidth limit exceeded"]
    ELSE [gm |-> c1.bucket, gb |-> c2.bucket, ok |-> TRUE, reason |-> "None"]

\* is_allowed, "Check peer-specific limits", "Track request" and "Check
\* request frequency"
check_peer_limits(peer, size, t) ==
    LET c3 == consume(peer.message_bucket, 1, t)
        p3 == [peer EXCEPT !.message_bucket = c3.bucket]
    IN
    IF ~c3.ok
    THEN [peer |-> p3, ok |-> FALSE, reason |-> "Peer message rate limit exceeded"]
    ELSE
    LET c4 == consume(peer.bandwidth_bucket, size, t)
        p4 == [p3 EXCEPT !.bandwidth_bucket = c4.bucket]
    IN
    IF ~c4.ok
    THEN [peer |-> p4, ok |-> FALSE, reason |-> "Peer bandwidth limit exceeded"]
    ELSE
    LET p5 == [p4 EXCEPT !.request_history = deque_append(p4.request_history, t)]
    IN  [peer |-> _check_request_frequency(p5, t), ok |-> TRUE, reason |-> "None"]

\* is_allowed with the peer's limits checked although a global bucket refused
is_allowed_charges_peer(gm, gb, peers, node_id, size, t) ==
    IF node_id \notin DOMAIN peers
    THEN RLResult(gm, gb, peers, FALSE, "Peer not registered")
    ELSE
    IF is_blocked(peers[node_id], t)
    THEN RLResult(gm, gb, peers, FALSE, "Peer blocked")
    ELSE
    LET g == check_global_limits(gm, gb, size, t)
        p == check_peer_limits(peers[node_id], size, t)
    IN
    IF ~g.ok
    THEN RLResult(g.gm, g.gb, [peers EXCEPT ![node_id] = p.peer], FALSE, g.reason)
    ELSE RLResult(g.gm, g.gb, [peers EXCEPT ![node_id] = p.peer], p.ok, p.reason)

\* RateLimiter.is_allowed(node_id, message_type, size) at clock reading t,
\* from the buckets gm, gb and the peer table: the new buckets and table and
\* the pair returned. message_type is only stored in the history entry.
is_allowed(gm, gb, peers, node_id, size, t) ==
    IF node_id \notin DOMAIN peers
    THEN RLResult(gm, gb, peers, FALSE, "Peer not registered")
    ELSE
    IF is_blocked(peers[node_id], t)
    THEN RLResult(gm, gb, peers, FALSE, "Peer blocked")
    ELSE
    LET g == check_global_limits(gm, gb, size, t) IN
    IF ~g.ok
    THEN RLResult(g.gm, g.gb, peers, FALSE, g.reason)
    ELSE
    LET p == check_peer_limits(peers[node_id], size, t) IN
    RLResult(g.gm, g.gb, [peers EXCEPT ![node_id] = p.peer], p.ok, p.reason)

\* the record kept of the last call
Ret(op, allowed, reason) == [op |-> op, allowed |-> allowed, reason |-> reason]

(***************************************************************************)
(* Wire codec (protocol.py)                                                *)
(***************************************************************************)
\* Python's None
None == "None"

\* a dict with no key
EmptyDict == [k \in {} |-> ""]

\* class MessageType(Enum): member name -> value
MessageType ==
    [HANDSHAKE |-> "handshake", BLOCK |-> "block", TRANSACTION |-> "transaction",
     PEER_DISCOVERY |-> "peer_discovery", PEER_LIST |-> "peer_list",
     HEARTBEAT |-> "heartbeat", CHAIN_REQUEST |-> "chain_request",
     CHAIN_RESPONSE |-> "chain_response", ERROR |-> "error"]

\* Protocol.VERSION
VERSION == "1.0.0"

\* MAX_MESSAGE_SIZE of Protocol and NetworkConfig
MAX_MESSAGE_SIZE == 1024 * 1024

\* dataclass Message
Message(type, data, sender, timestamp, signature) ==
    [type |-> type, data |-> data, sender |-> sender,
     timestamp |-> timestamp, signature |-> signature]

\* stands where no Message is held
NoMessage == Message("NoMessage", EmptyDict, "", 0, None)

\* a payload: bytes that are, or are not, the JSON text of an object
Payload(is_json, obj) == [json |-> is_json, obj |-> obj]
NoPayload == Payload(FALSE, EmptyDict)

\* the outcomes of a codec call: a value returned, an exception raised
Returned(msg) == [ok |-> TRUE, msg |-> msg, error |-> None]
Raised(error) == [ok |-> FALSE, msg |-> NoMessage, error |-> error]

\* the attribute access MessageType.<name> a caller makes to build a Message
MessageTypeAttr(name) ==
    IF name \in DOMAIN MessageType THEN Returned(name) ELSE Raised("AttributeError")

\* the call MessageType(value): the member with that value, or ValueError
MessageTypeByValue(value) ==
    IF \E m \in DOMAIN MessageType : MessageType[m] = value
    THEN Returned(CHOOSE m \in DOMAIN MessageType : MessageType[m] = value)
    ELSE Raised("ValueError: not a valid MessageType")

\* Protocol.encode_message(message): the JSON object written, as payload
encode_message(message) ==
    Payload(TRUE,
        [k \in {"type", "data", "sender", "timestamp", "signature", "version"} |->
            CASE k = "type" -> MessageType[message.type]
              [] k = "data" -> message.data
              [] k = "sender" -> message.sender
              [] k = "timestamp" -> message.timestamp
              [] k = "signature" -> message.signature
              [] k = "version" -> VERSION])

\* dict.get(key) with the default None
DictGet(d, key) == IF key \in DOMAIN d THEN d[key] ELSE None

\* decode_message without the version test
decode_message_any_version(payload) ==
    IF ~payload.json
    THEN Raised("ValueError: Invalid message format")
    ELSE
    LET message_dict == payload.obj IN
    IF "type" \notin DOMAIN message_dict
    THEN Raised("ValueError: Missing required field: type")
    ELSE
    IF ~MessageTypeByValue(message_dict["type"]).ok
    THEN MessageTypeByValue(message_dict["type"])
    ELSE
    IF "data" \notin DOMAIN message_dict
    THEN Raised("ValueError: Missing required field: data")
    ELSE
    IF "sender" \notin DOMAIN message_dict
    THEN Raised("ValueError: Missing required field: sender")
    ELSE
    IF "timestamp" \notin DOMAIN message_dict
    THEN Raised("ValueError: Missing required field: timestamp")
    ELSE
    Returned(Message(MessageTypeByValue(message_dict["type"]).msg,
                     message_dict["data"], message_dict["sender"],
                     message_dict["timestamp"], DictGet(message_dict, "signature")))

\* Protocol.decode_message(data): the Message returned or the error raised.
\* The keyword arguments of Message(...) are evaluated in the order type,
\* data, sender, timestamp, so the first of them to fail decides the error.
decode_message(payload) ==
    IF ~payload.json
    THEN Raised("ValueError: Invalid message format")
    ELSE
    LET message_dict == payload.obj IN
    IF DictGet(message_dict, "version") # VERSION
    THEN Raised("ValueError: Unsupported protocol version")
    ELSE
    IF "type" \notin DOMAIN message_dict
    THEN Raised("ValueError: Missing required field: type")
    ELSE
    IF ~MessageTypeByValue(message_dict["type"]).ok
    THEN MessageTypeByValue(message_dict["type"])
    ELSE
    IF "data" \notin DOMAIN message_dict
    THEN Raised("ValueError: Missing required field: data")
    ELSE
    IF "sender" \notin DOMAIN message_dict
    THEN Raised("ValueError: Missing required field: sender")
    ELSE
    IF "timestamp" \notin DOMAIN message_dict
    THEN Raised("ValueError: Missing required field: timestamp")
    ELSE
    Returned(Message(MessageTypeByValue(message_dict["type"]).msg,
                     message_dict["data"], message_dict["sender"],
                     message_dict["timestamp"], DictGet(message_dict, "signature")))

(***************************************************************************)
(* The clock                                                               *)
(***************************************************************************)
\* time passes
Tick ==
    /\ now + 1 <= MaxTime
    /\ now' = now + 1
    /\ UNCHANGED <<adjustments, rlVars, codecVars, cmVars, syncVars, nodeVars>>

\* the wall clock is set back (time.time() follows the system clock)
ClockStepBack(d) ==
    /\ adjustments < MaxAdjust
    /\ now - d >= 0
    /\ now' = now - d
    /\ adjustments' = adjustments + 1
    /\ UNCHANGED <<rlVars, codecVars, cmVars, syncVars, nodeVars>>

(***************************************************************************)
(* Rate limiter operations                                                 *)
(***************************************************************************)
\* RateLimiter.add_peer(node_id)
AddPeer(n) ==
    /\ rl_peers' = IF n \in DOMAIN rl_peers THEN rl_peers
                   ELSE [m \in DOMAIN rl_peers \cup {n} |->
                            IF m = n THEN PeerLimits(n, now) ELSE rl_peers[m]]
    /\ allowed_log' = IF n \in DOMAIN rl_peers THEN allowed_log
                      ELSE [m \in DOMAIN rl_peers \cup {n} |->
                               IF m = n THEN << >> ELSE allowed_log[m]]
    /\ rl_ret' = Ret("add_peer", FALSE, "None")
    /\ UNCHANGED <<clockVars, global_message_bucket, global_bandwidth_bucket,
                   codecVars, cmVars, syncVars, nodeVars>>

\* RateLimiter.remove_peer(node_id)
RemovePeer(n) ==
    /\ rl_peers' = [m \in DOMAIN rl_peers \ {n} |-> rl_peers[m]]
    /\ allowed_log' = [m \in DOMAIN rl_peers \ {n} |-> allowed_log[m]]
    /\ rl_ret' = Ret("remove_peer", FALSE, "None")
    /\ UNCHANGED <<clockVars, global_message_bucket, global_bandwidth_bucket,
                   codecVars, cmVars, syncVars, nodeVars>>

\* the readings of allowed calls that lie inside the window ending at t
InWindow(log, t) == SelectSeq(log, LAMBDA ts : ts >= t - request_window /\ ts <= t)

\* a call of RateLimiter.is_allowed(n, mtype, size)
IsAllowed(n, mtype, size) ==
    LET r == is_allowed(global_message_bucket, global_bandwidth_bucket,
                        rl_peers, n, size, now)
    IN  /\ global_message_bucket' = r.gm
        /\ global_bandwidth_bucket' = r.gb
        /\ rl_peers' = r.peers
        /\ rl_ret' = Ret("is_allowed", r.allowed, r.reason)
        /\ allowed_log' =
              IF r.allowed
              THEN [allowed_log EXCEPT ![n] = InWindow(Append(@, now), now)]
              ELSE allowed_log
        /\ UNCHANGED <<clockVars, codecVars, cmVars, syncVars, nodeVars>>

\* a call of RateLimiter._block_peer on a registered peer
BlockPeer(n) ==
    /\ n \in DOMAIN rl_peers
    /\ rl_peers' = [rl_peers EXCEPT ![n] = _block_peer(@, now)]
    /\ rl_ret' = Ret("_block_peer", FALSE, "None")
    /\ UNCHANGED <<clockVars, global_message_bucket, global_bandwidth_bucket,
                   allowed_log, codecVars, cmVars, syncVars, nodeVars>>

NextRL ==
    \/ Tick
    \/ \E n \in NodeIds : AddPeer(n)
    \/ \E n \in NodeIds : RemovePeer(n)
    \/ \E n \in NodeIds, mt \in RLMessageTypes, s \in Sizes : IsAllowed(n, mt, s)
    \/ \E n \in NodeIds : BlockPeer(n)

\* the rate limiter's steps when the wall clock may be set back
NextRLWallClock ==
    \/ NextRL
    \/ \E d \in 1..MaxBack : ClockStepBack(d)

(***************************************************************************)
(* Codec runs: a caller builds and encodes a message and the bytes are     *)
(* decoded again; or bytes arrive from a remote peer and are decoded       *)
(***************************************************************************)
\* the member names callers use: those of MessageType and the two that
\* sync_manager.py names (MessageType.BLOCK_REQUEST, MessageType.BLOCK_RESPONSE)
ProtocolTypeNames == DOMAIN MessageType \cup {"BLOCK_REQUEST", "BLOCK_RESPONSE"}

\* the messages callers set out to send
CodecData == {EmptyDict, [node_id |-> "n1"], [error |-> "failed"]}
CodecMessages ==
    {Message(ty, d, sn, ts, sg) :
        ty \in ProtocolTypeNames, d \in CodecData, sn \in {"n1", "n2"},
        ts \in {0, 1}, sg \in {None, "sig"}}

\* the payloads a remote peer may send: bytes that are no JSON, and JSON
\* objects with any subset of the six keys, a type tag and a version
WireKeys == {"type", "data", "sender", "timestamp", "signature", "version"}
RemoteTags == {"handshake", "heartbeat", "block_request", "bogus"}
RemoteVersions == {"1.0.0", "2.0.0"}
WireObject(keys, tag, version) ==
    [k \in keys |->
        CASE k = "type" -> tag
          [] k = "data" -> [node_id |-> "n2"]
          [] k = "sender" -> "n2"
          [] k = "timestamp" -> 1
          [] k = "signature" -> "sig"
          [] k = "version" -> version]
RemotePayloads ==
    {NoPayload} \cup
    {Payload(TRUE, WireObject(keys, tag, version)) :
        keys \in SUBSET WireKeys, tag \in RemoteTags, version \in RemoteVersions}

\* a caller names the message it wants to send
CodecInput(m) ==
    /\ codec_pc = "idle"
    /\ codec_in' = m
    /\ codec_pc' = "input"
    /\ UNCHANGED <<codec_wire, codec_out, clockVars, rlVars, cmVars, syncVars, nodeVars>>

\* the caller builds Message(type=MessageType.<name>, ...) and calls
\* Protocol.encode_message on it
CodecEncode ==
    /\ codec_pc = "input"
    /\ IF MessageTypeAttr(codec_in.type).ok
       THEN /\ codec_wire' = encode_message(codec_in)
            /\ codec_pc' = "encoded"
            /\ UNCHANGED codec_out
       ELSE /\ codec_out' = MessageTypeAttr(codec_in.type)
            /\ codec_pc' = "done_local"
            /\ UNCHANGED codec_wire
    /\ UNCHANGED <<codec_in, clockVars, rlVars, cmVars, syncVars, nodeVars>>

\* bytes arrive from a remote peer
CodecReceive(p) ==
    /\ codec_pc = "idle"
    /\ codec_wire' = p
    /\ codec_pc' = "received"
    /\ UNCHANGED <<codec_in, codec_out, clockVars, rlVars, cmVars, syncVars, nodeVars>>

\* Protocol.decode_message on the bytes at hand
CodecDecode ==
    /\ codec_pc \in {"encoded", "received"}
    /\ codec_out' = decode_message(codec_wire)
    /\ codec_pc' = IF codec_pc = "encoded" THEN "done_local" ELSE "done_remote"
    /\ UNCHANGED <<codec_in, codec_wire, clockVars, rlVars, cmVars, syncVars, nodeVars>>

NextCodec ==
    \/ \E m \in CodecMessages : CodecInput(m)
    \/ CodecEncode
    \/ \E p \in RemotePayloads : CodecReceive(p)
    \/ CodecDecode

(***************************************************************************)
(* Connection manager (connection_manager.py)                              *)
(***************************************************************************)
\* the transport connections the node can hold, numbered in the order in
\* which they come into use
ConnIds == {1, 2}
\* the node ids remote peers claim in their handshake
RemoteIds == {"n1", "n2"}
\* the addresses connect_to_peer is called with
HostPorts == {"h1:8333"}
\* NetworkConfig.get_node_id()
LocalNodeId == "local"

\* Protocol.create_handshake(node_id, timestamp)
create_handshake(node_id, timestamp) ==
    Message("HANDSHAKE", [node_id |-> node_id], node_id, timestamp, None)

\* a frame on the wire: the 4-byte length prefix and the payload after it
Frame(len, payload) == [len |-> len, payload |-> payload]

\* the frames a remote peer may send: well-formed handshakes and a
\* heartbeat, a handshake without node_id, bytes that are no JSON, a frame
\* of exactly MAX_MESSAGE_SIZE bytes, and a frame that declares one byte
\* more and carries a handshake that would decode
RemoteFrames ==
    {Frame(SmallLen, encode_message(create_handshake(n, 0))) : n \in RemoteIds}
    \cup {Frame(SmallLen, encode_message(Message("HEARTBEAT", EmptyDict, "n1", 0, None))),
          Frame(SmallLen, encode_message(Message("HANDSHAKE", EmptyDict, "n1", 0, None))),
          Frame(SmallLen, NoPayload),
          Frame(MAX_MESSAGE_SIZE,
                encode_message(Message("HEARTBEAT", EmptyDict, "n1", 0, None))),
          Frame(MAX_MESSAGE_SIZE + 1, encode_message(create_handshake("n1", 0)))}

\* a connection slot before any transport exists
IdleConn ==
    [role |-> "none",           \* "accept": handle_connection, "dial": connect_to_peer
     pc |-> "idle",             \* where that coroutine stands
     target |-> "none",         \* the host:port a dial goes to
     writer_open |-> FALSE,     \* the transport exists and writer.close() was not called
     inbox |-> << >>,           \* frames the remote sent that are not read yet
     hdr_read |-> FALSE,        \* the length prefix of the first of them was read
     rx_count |-> 0,            \* frames the remote has sent
     answered |-> 0,            \* CHAIN_REQUESTs the remote has answered
     eof |-> FALSE,             \* the remote closed its side
     remote_pc |-> "idle",      \* where a remote node's own perform_handshake stands
     sent |-> << >>,            \* types of the messages written to the transport
     wire |-> << >>,            \* the writer.write calls made on the transport
     session |-> FALSE,         \* a PeerConnection was built on this transport
     node_id |-> "none",        \* PeerConnection.node_id
     is_active |-> FALSE,       \* PeerConnection.is_active
     last_seen |-> 0,           \* PeerConnection.last_seen
     last_dispatched |-> NoMessage, \* the last message given to handle_message
     err |-> None,              \* the error that ended the coroutine
     returned |-> None]         \* what connect_to_peer returned

\* the length test of receive_message and of perform_handshake switched off
exceeds_max_unchecked(length) == FALSE

\* `if length > NetworkConfig.MAX_MESSAGE_SIZE` of receive_message and of
\* perform_handshake
exceeds_max(length) == length > MAX_MESSAGE_SIZE

\* Block(**block_data): the data dict of a BLOCK message builds a Block when
\* it holds the block's fields, and raises TypeError otherwise.  A block is
\* held as its index and what the validator finds of its content.
builds_block(block_data) == DOMAIN block_data = {"index", "valid"}

\* the node is built with a validator (`self.validator` is not None)
has_validator == TRUE

\* Validator.validate_block(block), a predicate on the block
validate_block(block) == block.valid

\* Blockchain.get_height()
get_height(chain) == Len(chain)

\* Blockchain.add_block(block)
add_block(chain, block) == Append(chain, block)

\* the handler of the message's type raises: handle_handshake on a missing
\* or empty node_id, handle_chain_response on missing chain data,
\* handle_block on data that builds no Block and on a block the validator
\* rejects, handle_transaction on data that builds no Transaction (here:
\* the empty dict)
handler_raises(message) ==
    \/ message.type = "HANDSHAKE" /\ DictGet(message.data, "node_id") \in {None, ""}
    \/ message.type = "CHAIN_RESPONSE" /\ "chain" \notin DOMAIN message.data
    \/ message.type = "BLOCK" /\ ~builds_block(message.data)
    \/ message.type = "BLOCK" /\ builds_block(message.data)
            /\ has_validator /\ ~validate_block(message.data)
    \/ message.type = "TRANSACTION" /\ message.data = EmptyDict

\* handle_block with the validator's answer left unused
handle_block_unvalidated(chain, message) ==
    IF builds_block(message.data) THEN add_block(chain, message.data) ELSE chain

\* MessageHandler.handle_block(message): the blockchain it leaves.  What it
\* raises (TypeError of Block(**block_data), ValueError("Invalid block")) it
\* catches itself, before add_block is reached.
handle_block(chain, message) ==
    IF ~builds_block(message.data) THEN chain
    ELSE IF has_validator /\ ~validate_block(message.data) THEN chain
    ELSE add_block(chain, message.data)

\* MessageHandler.handle_message(message): the reply, NoMessage for None.
\* A type without handler is answered with an ERROR message; every handler
\* catches what it raises and returns None.  What handle_block does to the
\* blockchain is handle_block above; the effect of handle_transaction on the
\* store is left out.
handle_message(message) ==
    CASE message.type \notin DOMAIN MessageType ->
            Message("ERROR", [error |-> "Unknown message type"], LocalNodeId,
                    message.timestamp, None)
      [] handler_raises(message) -> NoMessage
      [] message.type = "HANDSHAKE" ->
            Message("HANDSHAKE", [node_id |-> LocalNodeId], LocalNodeId,
                    message.timestamp, None)
      [] message.type = "HEARTBEAT" ->
            Message("HEARTBEAT", EmptyDict, LocalNodeId, message.timestamp, None)
      [] message.type = "PEER_DISCOVERY" ->
            Message("PEER_LIST", [peers |-> "[]"], LocalNodeId, message.timestamp, None)
      [] message.type = "CHAIN_REQUEST" ->
            Message("CHAIN_RESPONSE", [chain |-> "chain"], LocalNodeId,
                    message.timestamp, None)
      [] OTHER -> NoMessage

\* the transport of a connection is lost: closed on this side, or closed or
\* reset by the remote peer
lost(conn) == ~conn.writer_open \/ conn.eof

\* the two writer.write calls of one frame: the 4-byte length, then the
\* encoded message
frame_writes(type) ==
    <<[part |-> "length", of |-> type], [part |-> "data", of |-> type]>>

\* send_message that writes the data ahead of its length
write_data_first(conn, type) ==
    IF lost(conn) THEN conn
    ELSE [conn EXCEPT !.sent = Append(@, type),
                      !.wire = @ \o <<frame_writes(type)[2], frame_writes(type)[1]>>]

\* send_message up to its drain: `self.writer.write(...)` of the length and
\* the data; on a lost transport nothing is written
write(conn, type) ==
    IF lost(conn) THEN conn
    ELSE [conn EXCEPT !.sent = Append(@, type),
                      !.wire = @ \o frame_writes(type)]

\* PeerConnection.send_message(message) with nothing run in between: the
\* frame is written, or ConnectionError is raised from the drain on a lost
\* transport; the connection is left as it is either way
send_message(conn, type) ==
    [conn |-> write(conn, type), raised |-> lost(conn)]

\* close() that leaves the writer open
close_flag_only(conn) == [conn EXCEPT !.is_active = FALSE]

\* PeerConnection.close()
close(conn) == [conn EXCEPT !.is_active = FALSE, !.writer_open = FALSE]

\* dict assignment d[key] = value
DictSet(d, key, value) ==
    [k \in DOMAIN d \cup {key} |-> IF k = key THEN value ELSE d[k]]

\* the end of a handshake that perform_handshake answered with None:
\* `if not handshake: writer.close(); return`, and for a dial the
\* `finally` that discards the pending entry
HandshakeRefused(conn, error) ==
    [conn EXCEPT !.pc = "done", !.writer_open = FALSE, !.err = error,
                 !.returned = IF conn.role = "dial" THEN "False" ELSE None]

\* connection c is the next one to come into use
NextUnused(c) ==
    /\ conns[c].pc = "idle"
    /\ \A d \in ConnIds : d < c => conns[d].pc # "idle"

\* ConnectionManager.start(): the server listens, and the maintenance and
\* discovery tasks are created
Start ==
    /\ server = "none"
    /\ server' = "serving"
    /\ UNCHANGED <<conns, cm_peers, pending_connections, stop_pc, bc,
                   clockVars, rlVars, codecVars, syncVars, nodeVars>>

\* handle_connection is called with a new inbound transport and
\* perform_handshake writes the local handshake
Accept(c) ==
    /\ server = "serving"
    /\ NextUnused(c)
    /\ conns' = [conns EXCEPT ![c] =
            [@ EXCEPT !.role = "accept", !.pc = "hs_header",
                      !.writer_open = TRUE, !.sent = <<"HANDSHAKE">>,
                      !.wire = frame_writes("HANDSHAKE")]]
    /\ UNCHANGED <<cm_peers, pending_connections, cmCtl, clockVars, rlVars, codecVars, syncVars, nodeVars>>

\* connect_to_peer(host, port) up to `await asyncio.open_connection`
Dial(c, hp) ==
    /\ NextUnused(c)
    /\ hp \notin pending_connections
    /\ pending_connections' = pending_connections \cup {hp}
    /\ conns' = [conns EXCEPT ![c] =
            [@ EXCEPT !.role = "dial", !.pc = "connecting", !.target = hp]]
    /\ UNCHANGED <<cm_peers, cmCtl, clockVars, rlVars, codecVars, syncVars, nodeVars>>

\* connect_to_peer(host, port) while host:port is pending: `return False`
\* inside the try, so the `finally` discards the entry
DialSuppressed(hp) ==
    /\ hp \in pending_connections
    /\ pending_connections' = pending_connections \ {hp}
    /\ UNCHANGED <<conns, cm_peers, cmCtl, clockVars, rlVars, codecVars, syncVars, nodeVars>>

\* open_connection returns and perform_handshake writes the local handshake
DialConnected(c) ==
    /\ conns[c].pc = "connecting"
    /\ conns' = [conns EXCEPT ![c] =
            [@ EXCEPT !.pc = "hs_header", !.writer_open = TRUE,
                      !.sent = <<"HANDSHAKE">>,
                      !.wire = frame_writes("HANDSHAKE")]]
    /\ UNCHANGED <<cm_peers, pending_connections, cmCtl, clockVars, rlVars, codecVars, syncVars, nodeVars>>

\* open_connection raises: `except Exception: return False`, then `finally`
DialRefused(c) ==
    /\ conns[c].pc = "connecting"
    /\ pending_connections' = pending_connections \ {conns[c].target}
    /\ conns' = [conns EXCEPT ![c] =
            [@ EXCEPT !.pc = "done", !.err = "Failed to connect",
                      !.returned = "False"]]
    /\ UNCHANGED <<cm_peers, cmCtl, clockVars, rlVars, codecVars, syncVars, nodeVars>>

\* the number of frames the remote peers have sent on the connections cs
RECURSIVE FramesSent(_)
FramesSent(cs) ==
    IF cs = {} THEN 0
    ELSE LET c == CHOOSE d \in cs : TRUE
         IN  conns[c].rx_count + FramesSent(cs \ {c})

\* the remote peer sends a frame
RemoteSend(c, f) ==
    /\ conns[c].writer_open
    /\ ~conns[c].eof
    /\ FramesSent(ConnIds) < MaxFrames
    /\ conns' = [conns EXCEPT ![c] =
            [@ EXCEPT !.inbox = Append(@, f), !.rx_count = @ + 1]]
    /\ UNCHANGED <<cm_peers, pending_connections, cmCtl, clockVars, rlVars, codecVars, syncVars, nodeVars>>

\* the remote peer closes the connection
RemoteClose(c) ==
    /\ conns[c].writer_open
    /\ ~conns[c].eof
    /\ conns' = [conns EXCEPT ![c] = [@ EXCEPT !.eof = TRUE]]
    /\ UNCHANGED <<cm_peers, pending_connections, cmCtl, clockVars, rlVars, codecVars, syncVars, nodeVars>>

\* perform_handshake: `await reader.readexactly(4)` returns or raises, and
\* the length is tested
HsReadHeader(c) ==
    LET conn == conns[c] IN
    /\ conn.pc = "hs_header"
    /\ conn.inbox # << >> \/ conn.eof
    /\ IF conn.inbox = << >>
       THEN /\ conns' = [conns EXCEPT ![c] =
                    HandshakeRefused(conn, "Handshake failed: IncompleteReadError")]
            /\ pending_connections' = pending_connections \ {conn.target}
       ELSE IF exceeds_max(Head(conn.inbox).len)
       THEN /\ conns' = [conns EXCEPT ![c] =
                    HandshakeRefused([conn EXCEPT !.hdr_read = TRUE],
                                     "Handshake failed: size exceeds maximum")]
            /\ pending_connections' = pending_connections \ {conn.target}
       ELSE /\ conns' = [conns EXCEPT ![c] =
                    [conn EXCEPT !.hdr_read = TRUE, !.pc = "hs_payload"]]
            /\ UNCHANGED pending_connections
    /\ UNCHANGED <<cm_peers, cmCtl, clockVars, rlVars, codecVars, syncVars, nodeVars>>

\* perform_handshake: `await reader.readexactly(length)` returns and the
\* payload is decoded; then the rest of handle_connection (up to the first
\* receive_message of its loop) or of connect_to_peer
HsReadPayload(c) ==
    LET conn == conns[c]
        read == [conn EXCEPT !.inbox = Tail(@), !.hdr_read = FALSE]
        handshake == decode_message(Head(conn.inbox).payload)
    IN
    /\ conn.pc = "hs_payload"
    /\ IF ~handshake.ok
       THEN /\ conns' = [conns EXCEPT ![c] =
                    HandshakeRefused(read, "Handshake failed: decode")]
            /\ pending_connections' = pending_connections \ {conn.target}
            /\ UNCHANGED cm_peers
       ELSE IF "node_id" \notin DOMAIN handshake.msg.data
       THEN \* KeyError: handle_connection logs it and closes the writer in
            \* its `finally`; connect_to_peer returns False with the writer
            \* left open
            /\ conns' = [conns EXCEPT ![c] =
                    [read EXCEPT !.pc = "done", !.err = "KeyError: node_id",
                        !.writer_open = (conn.role = "dial"),
                        !.returned = IF conn.role = "dial" THEN "False" ELSE None]]
            /\ pending_connections' = pending_connections \ {conn.target}
            /\ UNCHANGED cm_peers
       ELSE LET node_id == handshake.msg.data["node_id"]
                peer == [read EXCEPT !.session = TRUE, !.node_id = node_id,
                                     !.is_active = TRUE, !.last_seen = now]
            IN  /\ cm_peers' = DictSet(cm_peers, node_id, c)
                /\ IF conn.role = "accept"
                   THEN /\ conns' = [conns EXCEPT ![c] =
                                [peer EXCEPT !.pc = "loop_header"]]
                        /\ UNCHANGED pending_connections
                   ELSE /\ conns' = [conns EXCEPT ![c] =
                                [peer EXCEPT !.pc = "done", !.returned = "True"]]
                        /\ pending_connections' =
                                pending_connections \ {conn.target}
    /\ UNCHANGED <<cmCtl, clockVars, rlVars, codecVars, syncVars, nodeVars>>

\* the read loop of handle_connection left by `break`: the `finally` closes
\* the writer
LoopBroken(conn, error) ==
    [conn EXCEPT !.pc = "done", !.writer_open = FALSE, !.err = error]

\* receive_message in the loop of handle_connection:
\* `await self.reader.readexactly(4)` returns or raises, and the length is
\* tested.  With nothing left to read it raises once the transport is
\* lost, by the remote peer or by a close() on this side.
LoopReadHeader(c) ==
    LET conn == conns[c] IN
    /\ conn.pc = "loop_header"
    /\ conn.inbox # << >> \/ conn.eof \/ ~conn.writer_open
    /\ conns' = [conns EXCEPT ![c] =
            IF conn.inbox = << >>
            THEN LoopBroken(conn, "Connection closed by peer")
            ELSE IF exceeds_max(Head(conn.inbox).len)
            THEN LoopBroken([conn EXCEPT !.hdr_read = TRUE],
                            "Failed to receive message: size exceeds maximum")
            ELSE [conn EXCEPT !.hdr_read = TRUE, !.pc = "loop_payload"]]
    /\ UNCHANGED <<cm_peers, pending_connections, cmCtl, clockVars, rlVars, codecVars, syncVars, nodeVars>>

\* receive_message in the loop of handle_connection:
\* `await self.reader.readexactly(length)` returns and the payload is
\* decoded; the message goes to handle_message and a reply is sent back;
\* a send that raises ConnectionError breaks the loop
LoopReadPayload(c) ==
    LET conn == conns[c]
        read == [conn EXCEPT !.inbox = Tail(@), !.hdr_read = FALSE]
        message == decode_message(Head(conn.inbox).payload)
        response == handle_message(message.msg)
        dispatched == [read EXCEPT !.last_dispatched = message.msg]
        reply == send_message(dispatched, response.type)
        again == IF response = NoMessage THEN dispatched ELSE reply.conn
    IN
    /\ conn.pc = "loop_payload"
    /\ conns' = [conns EXCEPT ![c] =
            IF ~message.ok
            THEN LoopBroken(read, "Failed to receive message: decode")
            ELSE IF response # NoMessage /\ reply.raised
            THEN LoopBroken(dispatched, "Failed to send message")
            ELSE [again EXCEPT
                    !.pc = IF conn.is_active THEN "loop_header" ELSE "done",
                    !.writer_open = conn.is_active /\ conn.writer_open]]
    /\ blockchain' = IF message.ok /\ message.msg.type = "BLOCK"
                     THEN handle_block(blockchain, message.msg)
                     ELSE blockchain
    /\ UNCHANGED <<cm_peers, pending_connections, cmCtl, clockVars, rlVars,
                   codecVars, sync_state, sync_runs, nodeVars>>

NextCM ==
    \/ Start
    \/ \E c \in ConnIds : Accept(c)
    \/ \E c \in ConnIds, hp \in HostPorts : Dial(c, hp)
    \/ \E hp \in HostPorts : DialSuppressed(hp)
    \/ \E c \in ConnIds : DialConnected(c)
    \/ \E c \in ConnIds : DialRefused(c)
    \/ \E c \in ConnIds, f \in RemoteFrames : RemoteSend(c, f)
    \/ \E c \in ConnIds : RemoteClose(c)
    \/ \E c \in ConnIds : HsReadHeader(c)
    \/ \E c \in ConnIds : HsReadPayload(c)
    \/ \E c \in ConnIds : LoopReadHeader(c)
    \/ \E c \in ConnIds : LoopReadPayload(c)

(***************************************************************************)
(* Connection manager: start, stop, maintenance, discovery, broadcast      *)
(***************************************************************************)
\* NetworkConfig.CONNECTION_TIMEOUT; source: 10 seconds
CONNECTION_TIMEOUT == 2

\* the messages one connection is sent by discover_peers
MaxDiscover == 1

\* the frames remote peers send while the background tasks are looked at:
\* the well-formed handshakes and a heartbeat
LifeFrames ==
    {Frame(SmallLen, encode_message(create_handshake(n, 0))) : n \in RemoteIds}
    \cup {Frame(SmallLen, encode_message(Message("HEARTBEAT", EmptyDict, "n1", 0, None)))}

\* no broadcast_message call made
IdleBroadcast == [pc |-> "idle", todo |-> << >>, lost |-> FALSE]

\* dict deletion: del d[key]
DictDel(d, key) == [k \in DOMAIN d \ {key} |-> d[k]]

\* maintain_connections reaping one second late
Reaped_late(t) ==
    {n \in DOMAIN cm_peers :
        \/ ~conns[cm_peers[n]].is_active
        \/ t - conns[cm_peers[n]].last_seen > CONNECTION_TIMEOUT + 1}

\* the sessions maintain_connections reaps at reading t: those of the map
\* that are not active or were last seen more than CONNECTION_TIMEOUT ago
Reaped(t) ==
    {n \in DOMAIN cm_peers :
        \/ ~conns[cm_peers[n]].is_active
        \/ t - conns[cm_peers[n]].last_seen > CONNECTION_TIMEOUT}

\* maintain_connections: one reaping pass (`for node_id, peer in
\* list(self.peers.items())`), which holds no await.  The task is created
\* by start() and nothing cancels it.
MaintainReap ==
    /\ server # "none"
    /\ conns' = [c \in ConnIds |->
            IF \E n \in Reaped(now) : cm_peers[n] = c
            THEN close(conns[c]) ELSE conns[c]]
    /\ cm_peers' = [n \in DOMAIN cm_peers \ Reaped(now) |-> cm_peers[n]]
    /\ UNCHANGED <<pending_connections, cmCtl, clockVars, rlVars, codecVars, syncVars, nodeVars>>

\* discover_peers: a PEER_DISCOVERY message is sent to a session of the
\* map; an exception of the send is logged.  The task is created by start()
\* and nothing cancels it.
DiscoverSend(n) ==
    LET c == cm_peers[n]
        r == send_message(conns[c], "PEER_DISCOVERY")
    IN
    /\ server # "none"
    /\ n \in DOMAIN cm_peers
    /\ Len(SelectSeq(conns[c].sent, LAMBDA t : t = "PEER_DISCOVERY")) < MaxDiscover
    /\ conns' = [conns EXCEPT ![c] =
            IF r.raised THEN [r.conn EXCEPT !.err = "Error in discover_peers"]
            ELSE r.conn]
    /\ UNCHANGED <<cm_peers, pending_connections, cmCtl, clockVars, rlVars, codecVars, syncVars, nodeVars>>

\* stop(): `self.server.close(); await self.server.wait_closed()`
StopServer ==
    /\ stop_pc = "idle"
    /\ server = "serving"
    /\ server' = "closed"
    /\ stop_pc' = "waiting"
    /\ UNCHANGED <<conns, cm_peers, pending_connections, bc,
                   clockVars, rlVars, codecVars, syncVars, nodeVars>>

\* stop(): every session of the map is closed, the map and
\* pending_connections are cleared; reached after wait_closed, or at once
\* when there is no server
StopPeers ==
    /\ stop_pc = "waiting" \/ (stop_pc = "idle" /\ server = "none")
    /\ conns' = [c \in ConnIds |->
            IF \E n \in DOMAIN cm_peers : cm_peers[n] = c
            THEN close(conns[c]) ELSE conns[c]]
    /\ cm_peers' = EmptyDict
    /\ pending_connections' = {}
    /\ stop_pc' = "done"
    /\ UNCHANGED <<server, bc, clockVars, rlVars, codecVars, syncVars, nodeVars>>

\* the orders in which list(self.peers.values()) can hold the sessions of
\* the map
Snapshots ==
    LET cs == {cm_peers[n] : n \in DOMAIN cm_peers}
    IN  {q \in UNION {[1..k -> cs] : k \in 0..Cardinality(ConnIds)} :
            /\ Len(q) = Cardinality(cs)
            /\ \A i, j \in 1..Len(q) : i # j => q[i] # q[j]}

\* broadcast_message: the iteration for the sessions q still to go starts
\* with `await peer.send_message(message)` on the first of them, which
\* writes and then waits in `await self.writer.drain()`
BroadcastBegin(cs, q) ==
    IF q = << >>
    THEN [conns |-> cs, bc |-> [pc |-> "done", todo |-> q, lost |-> FALSE]]
    ELSE [conns |-> [cs EXCEPT ![Head(q)] = write(@, "BLOCK")],
          bc |-> [pc |-> "running", todo |-> q, lost |-> lost(cs[Head(q)])]]

\* broadcast_message(message): the snapshot `list(self.peers.values())` and
\* the send to its first session, up to the drain
BroadcastStart(q) ==
    /\ bc.pc = "idle"
    /\ q \in Snapshots
    /\ conns' = BroadcastBegin(conns, q).conns
    /\ bc' = BroadcastBegin(conns, q).bc
    /\ UNCHANGED <<cm_peers, pending_connections, server, stop_pc,
                   clockVars, rlVars, codecVars, syncVars, nodeVars>>

\* the send to the head of the snapshot fails: it began on a lost
\* transport, or the remote peer was lost while the drain waited
BroadcastSendFails == bc.lost \/ conns[Head(bc.todo)].eof

\* broadcast_message: the drain of the send to the head of the snapshot
\* returns or raises.  `except Exception: peer.close(); del
\* self.peers[peer.node_id]`, where the del raises KeyError out of
\* broadcast_message when the map holds no such key any more; then the send
\* to the next session, up to its drain.
BroadcastDrained ==
    LET c == Head(bc.todo)
        closed == [conns EXCEPT ![c] = close(@)]
    IN
    /\ bc.pc = "running"
    /\ IF ~BroadcastSendFails
       THEN /\ conns' = BroadcastBegin(conns, Tail(bc.todo)).conns
            /\ bc' = BroadcastBegin(conns, Tail(bc.todo)).bc
            /\ UNCHANGED cm_peers
       ELSE IF conns[c].node_id \in DOMAIN cm_peers
       THEN /\ cm_peers' = DictDel(cm_peers, conns[c].node_id)
            /\ conns' = BroadcastBegin(closed, Tail(bc.todo)).conns
            /\ bc' = BroadcastBegin(closed, Tail(bc.todo)).bc
       ELSE /\ conns' = closed
            /\ bc' = [pc |-> "raised", todo |-> Tail(bc.todo), lost |-> FALSE]
            /\ UNCHANGED cm_peers
    /\ UNCHANGED <<pending_connections, server, stop_pc, clockVars, rlVars, codecVars, syncVars, nodeVars>>

\* what the remote peers and the serving of inbound connections do
NextInbound ==
    \/ Start
    \/ \E c \in ConnIds : Accept(c)
    \/ \E c \in ConnIds, f \in LifeFrames : RemoteSend(c, f)
    \/ \E c \in ConnIds : RemoteClose(c)
    \/ \E c \in ConnIds : HsReadHeader(c)
    \/ \E c \in ConnIds : HsReadPayload(c)
    \/ \E c \in ConnIds : LoopReadHeader(c)
    \/ \E c \in ConnIds : LoopReadPayload(c)

\* what connect_to_peer does
NextDial ==
    \/ \E c \in ConnIds, hp \in HostPorts : Dial(c, hp)
    \/ \E hp \in HostPorts : DialSuppressed(hp)
    \/ \E c \in ConnIds : DialConnected(c)
    \/ \E c \in ConnIds : DialRefused(c)

\* inbound sessions next to a rate limiter whose peers are registered and
\* blocked
NextCMLimiter ==
    \/ NextInbound
    \/ \E n \in NodeIds : AddPeer(n)
    \/ \E n \in NodeIds : BlockPeer(n)

\* sessions and the maintenance and discovery tasks, under the clock
NextCMMaintain ==
    \/ NextInbound
    \/ NextDial
    \/ Tick
    \/ MaintainReap
    \/ \E n \in DOMAIN cm_peers : DiscoverSend(n)

\* sessions, stop(), and of the background tasks what does not wait for
\* the clock: the discovery send, and the bootstrap dials of
\* maintain_connections (the connect_to_peer calls of NextDial)
NextCMStop ==
    \/ NextInbound
    \/ NextDial
    \/ \E n \in DOMAIN cm_peers : DiscoverSend(n)
    \/ StopServer
    \/ StopPeers

\* inbound sessions, the maintenance task and broadcast_message, under the
\* clock
NextCMBroadcast ==
    \/ NextInbound
    \/ Tick
    \/ MaintainReap
    \/ \E q \in Snapshots : BroadcastStart(q)
    \/ BroadcastDrained


(***************************************************************************)
(* Sync manager (sync_manager.py)                                          *)
(***************************************************************************)
\* NetworkConfig.PEER_DISCOVERY_INTERVAL; source: 300 seconds
PEER_DISCOVERY_INTERVAL == 2
\* NetworkConfig.MIN_PEERS_FOR_SYNC; source: 3
MIN_PEERS_FOR_SYNC == 1
\* the heights remote peers report: 0..MaxHeight
MaxHeight == 2
\* the length of the blockchain the node is constructed with: 0..MaxChain
MaxChain == 1
\* calls of sync_blockchain per caller
MaxCalls == 1

\* the callers of sync_blockchain: the periodic_sync task, and a caller of
\* the public coroutine
RunIds == {"periodic", "call"}

\* the class attributes of NetworkConfig
NetworkConfigAttrs ==
    {"DEFAULT_PORT", "MAX_PEERS", "PING_INTERVAL", "PEER_DISCOVERY_INTERVAL",
     "CONNECTION_TIMEOUT", "PROTOCOL_VERSION", "MAX_MESSAGE_SIZE",
     "MIN_PEERS_FOR_SYNC", "MAX_BLOCK_SIZE", "MAX_TRANSACTIONS_PER_BLOCK",
     "USE_TOR", "TOR_SOCKS_PORT", "TOR_CONTROL_PORT", "TOR_SERVICE_PORT",
     "TOR_CONTROL_PASSWORD", "TOR_DATA_DIR", "TOR_HIDDEN_SERVICE_DIR",
     "BOOTSTRAP_NODES", "TOR_BOOTSTRAP_NODES", "NODE_ID"}

\* SyncState(), at a clock that reads 0 when the node is constructed:
\* last_sync = 0 is the epoch, further back than any interval
SyncState ==
    [is_syncing |-> FALSE, last_sync |-> 0 - PEER_DISCOVERY_INTERVAL,
     sync_height |-> 0, target_height |-> 0, sync_peers |-> {}]

\* a caller that is not inside sync_blockchain
IdleRun ==
    [pc |-> "idle",             \* "await": in receive_message; "done": returned
     todo |-> << >>,            \* keys the iteration over peers.items() has to go
     len0 |-> 0,                \* the size of the dict when the iteration began
     cur |-> 0,                 \* the connection whose reply is awaited
     cur_id |-> "none",         \* its key in the dict
     heights |-> EmptyDict,     \* get_peer_chain_heights: heights
     asked |-> << >>,           \* the keys of heights in insertion order
     outcome |-> "none",        \* the path on which sync_blockchain returned
     sync_peer |-> "none",      \* sync_blockchain: sync_peer
     max_height |-> 0,          \* sync_blockchain: max_height
     local_height |-> 0,        \* blockchain.get_height() read at line 90
     err |-> None,              \* the exception sync_blockchain logged
     calls |-> 0]               \* calls of sync_blockchain this caller has made

\* the chain of k valid blocks
ValidChain(k) == [i \in 1..k |-> [index |-> i, valid |-> TRUE]]

\* the frame with which a remote peer reports height h
ChainResponse(n, h) ==
    Frame(SmallLen,
          encode_message(Message("CHAIN_RESPONSE", [chain |-> [height |-> h]],
                                 n, 0, None)))

\* SyncManager.should_sync() at clock reading t
should_sync(t, st, peers) ==
    IF t - st.last_sync < PEER_DISCOVERY_INTERVAL THEN FALSE
    ELSE IF Cardinality(DOMAIN peers) < MIN_PEERS_FOR_SYNC THEN FALSE
    ELSE TRUE

\* the `finally` of sync_blockchain with the clock not read
sync_finally_keeps_last_sync(st, t) == [st EXCEPT !.is_syncing = FALSE]

\* the `finally` of sync_blockchain
sync_finally(st, t) == [st EXCEPT !.is_syncing = FALSE, !.last_sync = t]

\* building the BLOCK_REQUEST of sync_blocks_from_peer raises
\* AttributeError: MessageType has no member BLOCK_REQUEST, and NetworkConfig
\* no attribute MAX_BLOCKS_PER_REQUEST
block_request_raises ==
    \/ ~MessageTypeAttr("BLOCK_REQUEST").ok
    \/ "MAX_BLOCKS_PER_REQUEST" \notin NetworkConfigAttrs

\* sync_blocks_from_peer with current_height taken back from the target
sync_blocks_from_peer_from_target(st, chain, peers, peer_id, target_height) ==
    LET started == [st EXCEPT !.sync_height = target_height - 1,
                              !.target_height = target_height]
    IN  IF peer_id \notin DOMAIN peers THEN st
        ELSE IF get_height(chain) < target_height /\ st.is_syncing
                    /\ block_request_raises
        THEN [started EXCEPT !.is_syncing = FALSE]
        ELSE started

\* sync_blocks_from_peer(peer_id, target_height): the SyncState it leaves.
\* The first pass of its loop raises while the request is built, before
\* anything is sent, and `except Exception` clears is_syncing; the rest of
\* the loop body is never reached.
sync_blocks_from_peer(st, chain, peers, peer_id, target_height) ==
    LET started == [st EXCEPT !.sync_height = get_height(chain),
                              !.target_height = target_height]
    IN  IF peer_id \notin DOMAIN peers THEN st
        ELSE IF get_height(chain) < target_height /\ st.is_syncing
                    /\ block_request_raises
        THEN [started EXCEPT !.is_syncing = FALSE]
        ELSE started

\* max(chain_heights.values())
RECURSIVE MaxOf(_)
MaxOf(S) ==
    IF S = {} THEN 0
    ELSE LET x == CHOOSE y \in S : TRUE
             m == MaxOf(S \ {x})
         IN  IF x > m THEN x ELSE m

\* max(chain_heights.items(), key=lambda x: x[1])[0] with the least key
\* height
select_lowest(heights, asked) ==
    LET low == CHOOSE h \in {heights[n] : n \in DOMAIN heights} :
                   \A n \in DOMAIN heights : h <= heights[n]
    IN  asked[CHOOSE i \in 1..Len(asked) :
                /\ heights[asked[i]] = low
                /\ \A j \in 1..(i - 1) : heights[asked[j]] # low]

\* max(chain_heights.items(), key=lambda x: x[1])[0]: the first key, in
\* the order of insertion, that holds the maximum
select_peer(heights, asked) ==
    LET high == MaxOf({heights[n] : n \in DOMAIN heights})
    IN  asked[CHOOSE i \in 1..Len(asked) :
                /\ heights[asked[i]] = high
                /\ \A j \in 1..(i - 1) : heights[asked[j]] # high]

\* sync_blockchain from the return of get_peer_chain_heights (or from the
\* exception that left it) to its own return, which holds no await
sync_conclude(run, st) ==
    LET hs == run.heights
        max_height == MaxOf({hs[n] : n \in DOMAIN hs})
        sync_peer == select_peer(hs, run.asked)
        ended == [run EXCEPT !.pc = "done", !.cur = 0, !.cur_id = "none",
                             !.local_height = get_height(blockchain)]
    IN  IF run.err # None
        THEN [run |-> [ended EXCEPT !.outcome = "raised"],
              st |-> sync_finally(st, now)]
        ELSE IF DOMAIN hs = {}
        THEN [run |-> [ended EXCEPT !.outcome = "no_heights"],
              st |-> sync_finally(st, now)]
        ELSE IF max_height <= get_height(blockchain)
        THEN [run |-> [ended EXCEPT !.outcome = "at_max", !.max_height = max_height],
              st |-> sync_finally(st, now)]
        ELSE [run |-> [ended EXCEPT !.outcome = "download",
                                    !.max_height = max_height,
                                    !.sync_peer = sync_peer],
              st |-> sync_finally(
                        sync_blocks_from_peer(st, blockchain, cm_peers,
                                              sync_peer, max_height), now)]

\* another coroutine waits in a read of the connection's StreamReader: the
\* read loop of handle_connection, with nothing buffered for it
reader_waited(conn) ==
    /\ conn.role = "accept"
    /\ \/ conn.pc = "loop_header" /\ conn.inbox = << >>
       \/ conn.pc = "loop_payload"

\* receive_message on a connection that holds a frame, and what
\* get_peer_chain_heights makes of the response: the connection and the
\* heights after it.  What receive_message raises is logged and the peer
\* skipped.
collect(run, conn, n) ==
    LET frame == Head(conn.inbox)
        response == decode_message(frame.payload)
        read == [conn EXCEPT !.inbox = Tail(@)]
        chain_data == IF "chain" \in DOMAIN response.msg.data
                      THEN response.msg.data["chain"] ELSE EmptyDict
        height == IF "height" \in DOMAIN chain_data THEN chain_data["height"] ELSE 0
    IN  IF exceeds_max(frame.len)
        THEN [run |-> run, conn |-> [conn EXCEPT !.hdr_read = TRUE]]
        ELSE IF ~response.ok
        THEN [run |-> run, conn |-> read]
        ELSE IF response.msg.type = "CHAIN_RESPONSE" /\ height > 0
        THEN [run |-> [run EXCEPT
                        !.heights = DictSet(@, n, height),
                        !.asked = IF n \in DOMAIN run.heights THEN @ ELSE Append(@, n)],
              conn |-> read]
        ELSE [run |-> run, conn |-> read]

\* get_peer_chain_heights from a next() of its `for node_id, peer in
\* self.connection_manager.peers.items()` up to the next receive_message
\* that has to wait, or to its end: the run and the connections then.
\* next() raises RuntimeError out of the function when the dict has
\* changed its size.  Per peer: send_message, whose ConnectionError is
\* logged; receive_message, which raises at once when the read loop of the
\* session waits on the same reader, returns at once when a frame is
\* buffered, and waits otherwise.
RECURSIVE get_peer_chain_heights(_, _)
get_peer_chain_heights(run, cs) ==
    LET rest == SelectSeq(run.todo, LAMBDA n : n \in DOMAIN cm_peers)
        n == Head(rest)
        c == cm_peers[n]
        sent == send_message(cs[c], "CHAIN_REQUEST")
        next == [run EXCEPT !.todo = Tail(rest), !.cur = 0, !.cur_id = "none"]
        got == collect(next, sent.conn, n)
    IN  IF Cardinality(DOMAIN cm_peers) # run.len0
        THEN [run |-> [run EXCEPT !.err = "RuntimeError: dictionary changed size"],
              conns |-> cs]
        ELSE IF rest = << >>
        THEN [run |-> [run EXCEPT !.todo = << >>], conns |-> cs]
        ELSE IF sent.raised \/ reader_waited(cs[c]) \/ cs[c].hdr_read
        THEN get_peer_chain_heights(next, [cs EXCEPT ![c] = sent.conn])
        ELSE IF cs[c].inbox # << >>
        THEN get_peer_chain_heights(got.run, [cs EXCEPT ![c] = got.conn])
        ELSE [run |-> [next EXCEPT !.pc = "await", !.cur = c, !.cur_id = n],
              conns |-> [cs EXCEPT ![c] = sent.conn]]

\* the orders in which peers.items() can hold the keys of the map
KeyOrders ==
    {q \in UNION {[1..k -> DOMAIN cm_peers] : k \in 0..Cardinality(RemoteIds)} :
        /\ Len(q) = Cardinality(DOMAIN cm_peers)
        /\ \A i, j \in 1..Len(q) : i # j => q[i] # q[j]}

\* a run goes on from `queried` (the run after get_peer_chain_heights went
\* as far as it can without waiting): it waits, or sync_blockchain returns
SyncGoesOn(r, st, queried) ==
    LET ending == sync_conclude(queried.run, st) IN
    /\ conns' = queried.conns
    /\ IF queried.run.pc = "await"
       THEN /\ sync_runs' = [sync_runs EXCEPT ![r] = queried.run]
            /\ sync_state' = st
       ELSE /\ sync_runs' = [sync_runs EXCEPT ![r] = ending.run]
            /\ sync_state' = ending.st

\* sync_blockchain() is entered: is_syncing and sync_peers are set and
\* get_peer_chain_heights begins its iteration, in the order q
SyncEnter(r, q) ==
    LET st == [sync_state EXCEPT !.is_syncing = TRUE,
                                 !.sync_peers = DOMAIN cm_peers]
        run == [IdleRun EXCEPT !.pc = "query", !.todo = q, !.len0 = Len(q),
                               !.calls = sync_runs[r].calls + 1]
    IN
    /\ sync_runs[r].pc \in {"idle", "done"}
    /\ q \in KeyOrders
    /\ sync_runs[r].calls < MaxCalls
    /\ SyncGoesOn(r, st, get_peer_chain_heights(run, conns))
    /\ UNCHANGED <<cm_peers, pending_connections, cmCtl, blockchain,
                   clockVars, rlVars, codecVars, nodeVars>>

\* periodic_sync: `if not self.state.is_syncing and self.should_sync():
\* await self.sync_blockchain()`
PeriodicSync(q) ==
    /\ ~sync_state.is_syncing
    /\ should_sync(now, sync_state, cm_peers)
    /\ SyncEnter("periodic", q)

\* sync_blockchain() called on the SyncManager by another caller
SyncCall(q) == SyncEnter("call", q)

\* the receive_message a run waits in returns or raises, and the run goes
\* on to its next wait or to its return
SyncReceive(r) ==
    LET run == sync_runs[r]
        c == run.cur
        conn == conns[c]
        got == collect(run, conn, run.cur_id)
        resumed == IF conn.inbox = << >> THEN [conns |-> conns, run |-> run]
                   ELSE [conns |-> [conns EXCEPT ![c] = got.conn], run |-> got.run]
    IN
    /\ run.pc = "await"
    /\ conn.inbox # << >> \/ lost(conn)
    /\ SyncGoesOn(r, sync_state,
                  get_peer_chain_heights([resumed.run EXCEPT !.pc = "query"],
                                         resumed.conns))
    /\ UNCHANGED <<cm_peers, pending_connections, cmCtl, blockchain,
                   clockVars, rlVars, codecVars, nodeVars>>

\* SyncManager.stop()
SyncStop ==
    /\ sync_state' = [sync_state EXCEPT !.is_syncing = FALSE]
    /\ UNCHANGED <<sync_runs, blockchain, cmVars, clockVars, rlVars, codecVars, nodeVars>>

\* the remote peer answers a CHAIN_REQUEST it has received, reporting the
\* height h
PeerAnswers(c, h) ==
    /\ conns[c].writer_open
    /\ ~conns[c].eof
    /\ conns[c].answered <
           Len(SelectSeq(conns[c].sent, LAMBDA t : t = "CHAIN_REQUEST"))
    /\ conns' = [conns EXCEPT ![c] =
            [@ EXCEPT !.inbox = Append(@, ChainResponse(conns[c].node_id, h)),
                      !.answered = @ + 1]]
    /\ UNCHANGED <<cm_peers, pending_connections, cmCtl, syncVars,
                   clockVars, rlVars, codecVars, nodeVars>>

\* the frames remote peers send unasked next to a sync manager: handshakes
SyncFrames ==
    {Frame(SmallLen, encode_message(create_handshake(n, 0))) : n \in RemoteIds}

\* what connect_to_peer does against peers that accept the connection
NextDialled ==
    \/ \E c \in ConnIds, hp \in HostPorts : Dial(c, hp)
    \/ \E c \in ConnIds : DialConnected(c)
    \/ \E c \in ConnIds, f \in SyncFrames : RemoteSend(c, f)
    \/ \E c \in ConnIds : HsReadHeader(c)
    \/ \E c \in ConnIds : HsReadPayload(c)

\* dialled sessions, the periodic_sync task under the clock, and peers
\* that answer its requests or close
NextSync ==
    \/ NextDialled
    \/ \E c \in ConnIds : RemoteClose(c)
    \/ Tick
    \/ \E q \in KeyOrders : PeriodicSync(q)
    \/ \E r \in RunIds : SyncReceive(r)
    \/ \E c \in ConnIds, h \in 0..MaxHeight : PeerAnswers(c, h)

\* dialled and accepted sessions, the periodic_sync task next to another
\* caller of sync_blockchain and to stop(), and peers that answer
NextSyncCalls ==
    \/ NextDialled
    \/ Start
    \/ \E c \in ConnIds : Accept(c)
    \/ \E c \in ConnIds : LoopReadHeader(c)
    \/ \E c \in ConnIds : LoopReadPayload(c)
    \/ \E q \in KeyOrders : PeriodicSync(q)
    \/ \E q \in KeyOrders : SyncCall(q)
    \/ \E r \in RunIds : SyncReceive(r)
    \/ SyncStop
    \/ \E c \in ConnIds, h \in 0..MaxHeight : PeerAnswers(c, h)

\* the frames a remote peer sends to a node that takes blocks: a handshake,
\* a block the validator accepts, one it rejects, and one whose data builds
\* no Block
BlockFrames ==
    {Frame(SmallLen, encode_message(create_handshake("n1", 0))),
     Frame(SmallLen, encode_message(Message("BLOCK", [index |-> 1, valid |-> TRUE],
                                            "n1", 0, None))),
     Frame(SmallLen, encode_message(Message("BLOCK", [index |-> 1, valid |-> FALSE],
                                            "n1", 0, None))),
     Frame(SmallLen, encode_message(Message("BLOCK", EmptyDict, "n1", 0, None)))}

\* inbound sessions on which blocks arrive
NextCMBlocks ==
    \/ Start
    \/ \E c \in ConnIds : Accept(c)
    \/ \E c \in ConnIds, f \in BlockFrames : RemoteSend(c, f)
    \/ \E c \in ConnIds : RemoteClose(c)
    \/ \E c \in ConnIds : HsReadHeader(c)
    \/ \E c \in ConnIds : HsReadPayload(c)
    \/ \E c \in ConnIds : LoopReadHeader(c)
    \/ \E c \in ConnIds : LoopReadPayload(c)

(***************************************************************************)
(* Error handler (error_handler.py) and the metrics it reports to          *)
(***************************************************************************)
\* the history of ErrorHandler holds this many errors (1000 in the source)
max_history_size == 2

\* the errors handed to handle_error
MaxErrors == 2

\* the handlers callers register next to the default ones
MaxRegistered == 2

\* ErrorType, the enum
ErrorType ==
    {"CONNECTION_ERROR", "PROTOCOL_ERROR", "AUTHENTICATION_ERROR",
     "RATE_LIMIT_ERROR", "VALIDATION_ERROR", "SYNC_ERROR", "PEER_ERROR",
     "INTERNAL_ERROR"}

\* ErrorSeverity, an Enum (not an IntEnum): its members are not ordered
ErrorSeverity == {"LOW", "MEDIUM", "HIGH", "CRITICAL"}

\* NetworkError(error_type, severity, ...)
NetworkError(error_type, severity) ==
    [error_type |-> error_type, severity |-> severity]

\* the bound method the constructor registers for an error type
DefaultHandler(error_type) ==
    [callable |-> "method", raises |-> FALSE,
     name |-> CASE error_type = "CONNECTION_ERROR" -> "_handle_connection_error"
                [] error_type = "PROTOCOL_ERROR" -> "_handle_protocol_error"
                [] error_type = "AUTHENTICATION_ERROR" -> "_handle_auth_error"
                [] error_type = "RATE_LIMIT_ERROR" -> "_handle_rate_limit_error"
                [] error_type = "VALIDATION_ERROR" -> "_handle_validation_error"
                [] error_type = "SYNC_ERROR" -> "_handle_sync_error"
                [] error_type = "PEER_ERROR" -> "_handle_peer_error"
                [] OTHER -> "_handle_internal_error"]

\* the callables a caller registers: a function and a functools.partial
\* (which has no __name__), each returning or raising
CallerHandlers ==
    {[callable |-> k, raises |-> b, name |-> "on_error"] :
        k \in {"function", "partial"}, b \in BOOLEAN}

\* handler(error) raises.  Every default handler but _handle_rate_limit_error
\* begins with `error.severity >= ErrorSeverity.X`, a comparison the Enum
\* does not define: TypeError.
handler_throws(handler, error) ==
    IF handler.callable = "method"
    THEN handler.name # "_handle_rate_limit_error"
    ELSE handler.raises

\* `handler.__name__` can be read
has_name(handler) == handler.callable # "partial"

\* ErrorHandler() next to NetworkMetrics()
NewErrorHandler ==
    [error_counts |-> [t \in ErrorType |-> 0],
     error_history |-> << >>,
     error_handlers |-> [t \in ErrorType |-> <<DefaultHandler(t)>>],
     metrics_peers |-> EmptyDict,     \* NetworkMetrics.peers: node_id -> errors
     handled |-> 0,                   \* handle_error calls made
     called |-> << >>,                \* the handlers the last call has called
     outcome |-> None]                \* how the last call ended

\* `for handler in self.error_handlers.get(...)`: the handlers called.  What
\* a handler raises is caught and logged with `handler=handler.__name__`;
\* when that attribute is missing the AttributeError leaves the loop for the
\* outer `except Exception`.
RECURSIVE call_handlers(_, _, _)
call_handlers(handlers, error, called) ==
    IF handlers = << >> THEN called
    ELSE IF handler_throws(Head(handlers), error) /\ ~has_name(Head(handlers))
    THEN Append(called, Head(handlers))
    ELSE call_handlers(Tail(handlers), error, Append(called, Head(handlers)))

\* ErrorHandler.handle_error(error, peer_id): counter, history with its
\* bound, metrics.record_error for a peer the metrics know, the handlers.
\* Both `except Exception` clauses log and go on, so it returns None.
handle_error(e, error, peer_id) ==
    LET appended == Append(e.error_history, error)
        history == IF Len(appended) > max_history_size THEN Tail(appended)
                   ELSE appended
        recorded == IF peer_id # None /\ peer_id \in DOMAIN e.metrics_peers
                    THEN [e.metrics_peers EXCEPT ![peer_id] = @ + 1]
                    ELSE e.metrics_peers
    IN  [e EXCEPT !.error_counts[error.error_type] = @ + 1,
                  !.error_history = history,
                  !.metrics_peers = recorded,
                  !.handled = @ + 1,
                  !.called = call_handlers(e.error_handlers[error.error_type],
                                           error, << >>),
                  !.outcome = "returned"]

\* the error types handle_error is called with
HandledTypes == {"CONNECTION_ERROR", "RATE_LIMIT_ERROR"}

\* register_handler(error_type, handler)
RegisterHandler(error_type, handler) ==
    /\ Len(eh.error_handlers[error_type]) <= MaxRegistered
    /\ eh' = [eh EXCEPT !.error_handlers[error_type] = Append(@, handler)]
    /\ UNCHANGED <<net, cmVars, syncVars, clockVars, rlVars, codecVars>>

\* NetworkMetrics.add_peer(node_id)
MetricsAddPeer(n) ==
    /\ n \notin DOMAIN eh.metrics_peers
    /\ eh' = [eh EXCEPT !.metrics_peers = DictSet(@, n, 0)]
    /\ UNCHANGED <<net, cmVars, syncVars, clockVars, rlVars, codecVars>>

\* a component calls handle_error(error, peer_id)
HandleError(error, peer_id) ==
    /\ eh.handled < MaxErrors
    /\ eh' = handle_error(eh, error, peer_id)
    /\ UNCHANGED <<net, cmVars, syncVars, clockVars, rlVars, codecVars>>

\* clear_error_history()
ClearErrorHistory ==
    /\ eh.error_history # << >>
    /\ eh' = [eh EXCEPT !.error_history = << >>,
                        !.error_counts = [t \in ErrorType |-> 0]]
    /\ UNCHANGED <<net, cmVars, syncVars, clockVars, rlVars, codecVars>>

\* the error handler and its callers
NextErrors ==
    \/ \E t \in HandledTypes, h \in CallerHandlers : RegisterHandler(t, h)
    \/ \E n \in {"n1"} : MetricsAddPeer(n)
    \/ \E t \in HandledTypes, s \in {"LOW", "CRITICAL"}, p \in {None, "n1"} :
          HandleError(NetworkError(t, s), p)
    \/ ClearErrorHistory

(***************************************************************************)
(* Two nodes of this program on one connection: the remote one runs        *)
(* perform_handshake too                                                   *)
(***************************************************************************)
\* the remote node's perform_handshake that never writes its handshake
peer_handshake_unsent(conn, n) == [conn EXCEPT !.remote_pc = "hs_read"]

\* the remote node's perform_handshake up to its first read: it writes its
\* own handshake, whatever it has received
peer_handshake(conn, n) ==
    [conn EXCEPT !.inbox = Append(@, Frame(SmallLen,
                                    encode_message(create_handshake(n, 0)))),
                 !.rx_count = @ + 1,
                 !.remote_pc = "hs_read"]

\* the remote node n begins perform_handshake on its end of connection c
PeerHandshakeSend(c, n) ==
    /\ conns[c].role \in {"accept", "dial"}
    /\ conns[c].pc \notin {"idle", "connecting"}
    /\ conns[c].remote_pc = "idle"
    /\ conns' = [conns EXCEPT ![c] = peer_handshake(@, n)]
    /\ UNCHANGED <<cm_peers, pending_connections, cmCtl, clockVars, rlVars,
                   codecVars, syncVars, nodeVars>>

\* the remote node's perform_handshake reads the frame the local node
\* wrote, decodes it, and the remote node registers its session
PeerHandshakeRead(c) ==
    LET handshake == decode_message(encode_message(create_handshake(LocalNodeId, now)))
    IN
    /\ conns[c].remote_pc = "hs_read"
    /\ conns[c].sent # << >>
    /\ conns' = [conns EXCEPT ![c] =
            [@ EXCEPT !.remote_pc =
                IF handshake.ok /\ "node_id" \in DOMAIN handshake.msg.data
                THEN "registered" ELSE "failed"]]
    /\ UNCHANGED <<cm_peers, pending_connections, cmCtl, clockVars, rlVars,
                   codecVars, syncVars, nodeVars>>

\* what the event loops of the two nodes run once a connection stands
HandshakeSteps ==
    \/ \E c \in ConnIds, n \in RemoteIds : PeerHandshakeSend(c, n)
    \/ \E c \in ConnIds : PeerHandshakeRead(c)
    \/ \E c \in ConnIds : HsReadHeader(c)
    \/ \E c \in ConnIds : HsReadPayload(c)

\* connections dialled and accepted between nodes of this program
NextHandshake ==
    \/ Start
    \/ \E c \in ConnIds : Accept(c)
    \/ \E c \in ConnIds, hp \in HostPorts : Dial(c, hp)
    \/ \E c \in ConnIds : DialConnected(c)
    \/ HandshakeSteps

(***************************************************************************)
(* initialize_network (network/__init__.py)                                *)
(***************************************************************************)
\* initialize_network has not been called
IdleNetwork == [pc |-> "idle", tor |-> "none", err |-> None]

\* what becomes of Tor: NetworkConfig.USE_TOR is false, or
\* TorNetwork.start() returns, or it raises NetworkError
TorOutcomes == {"off", "started", "failed"}

\* initialize_network(blockchain, validator, host, port) up to
\* `await connection_manager.start(...)`: the components are created; when
\* Tor fails to start the error is given to the error handler and raised
InitializeNetwork(tor) ==
    /\ net.pc = "idle"
    /\ IF tor = "failed"
       THEN /\ net' = [net EXCEPT !.pc = "raised", !.tor = tor,
                                  !.err = "Failed to start Tor network"]
            /\ eh' = handle_error(eh, NetworkError("INTERNAL_ERROR", "CRITICAL"), None)
       ELSE /\ net' = [net EXCEPT !.pc = "cm_start", !.tor = tor]
            /\ UNCHANGED eh
    /\ UNCHANGED <<cmVars, syncVars, clockVars, rlVars, codecVars>>

\* ConnectionManager.start() called by initialize_network:
\* asyncio.start_server binds or raises.  Bound, the maintenance and
\* discovery tasks are created and start() awaits
\* `self.server.serve_forever()`, which does not return while the server
\* serves.  Not bound, start() raises and initialize_network cleans up:
\* connection_manager.stop(), sync_manager.stop(), tor_network.stop(),
\* `raise NetworkError`.
StartNetwork(bound) ==
    /\ net.pc = "cm_start"
    /\ server = "none"
    /\ IF bound
       THEN /\ server' = "serving"
            /\ net' = [net EXCEPT !.pc = "serve_forever"]
            /\ UNCHANGED <<conns, cm_peers, pending_connections, sync_state>>
       ELSE /\ net' = [net EXCEPT !.pc = "raised",
                          !.tor = IF @ = "started" THEN "stopped" ELSE @,
                          !.err = "Failed to initialize network"]
            /\ conns' = [c \in ConnIds |->
                    IF \E n \in DOMAIN cm_peers : cm_peers[n] = c
                    THEN close(conns[c]) ELSE conns[c]]
            /\ cm_peers' = EmptyDict
            /\ pending_connections' = {}
            /\ sync_state' = [sync_state EXCEPT !.is_syncing = FALSE]
            /\ UNCHANGED server
    /\ UNCHANGED <<stop_pc, bc, blockchain, sync_runs, eh, clockVars, rlVars, codecVars>>

\* the coroutine of initialize_network
InitializeSteps ==
    \/ \E tor \in TorOutcomes : InitializeNetwork(tor)
    \/ \E bound \in BOOLEAN : StartNetwork(bound)

\* initialize_network and the inbound connections its server takes
NextNetwork ==
    \/ InitializeSteps
    \/ \E c \in ConnIds : Accept(c)
    \/ \E c \in ConnIds, f \in LifeFrames : RemoteSend(c, f)
    \/ \E c \in ConnIds : RemoteClose(c)
    \/ \E c \in ConnIds : HsReadHeader(c)
    \/ \E c \in ConnIds : HsReadPayload(c)
    \/ \E c \in ConnIds : LoopReadHeader(c)
    \/ \E c \in ConnIds : LoopReadPayload(c)

(***************************************************************************)
(* Initial state: RateLimiter(), ConnectionManager() and SyncManager()     *)
(* constructed at clock reading 0 on the blockchain `chain`; no codec call *)
(* made, no connection open                                                *)
(***************************************************************************)
Constructed(chain) ==
    /\ blockchain = chain
    /\ sync_state = SyncState
    /\ sync_runs = [r \in RunIds |-> IdleRun]
    /\ now = 0
    /\ adjustments = 0
    /\ codec_pc = "idle"
    /\ codec_in = NoMessage
    /\ codec_wire = NoPayload
    /\ codec_out = Raised("None")
    /\ conns = [c \in ConnIds |-> IdleConn]
    /\ cm_peers = EmptyDict
    /\ pending_connections = {}
    /\ server = "none"
    /\ stop_pc = "idle"
    /\ bc = IdleBroadcast
    /\ global_message_bucket =
          TokenBucket(default_message_rate * global_multiplier,
                      default_message_rate * global_multiplier, 0)
    /\ global_bandwidth_bucket =
          TokenBucket(default_bandwidth_rate * global_multiplier,
                      default_bandwidth_rate * global_multiplier, 0)
    /\ rl_peers = << >>
    /\ rl_ret = Ret("init", FALSE, "None")
    /\ allowed_log = << >>
    /\ net = IdleNetwork
    /\ eh = NewErrorHandler

\* a node whose blockchain is empty
Init == Constructed(<< >>)

\* a node constructed on a blockchain of up to MaxChain blocks
InitSync == \E k \in 0..MaxChain : Constructed(ValidChain(k))

(***************************************************************************)
(* Specifications                                                          *)
(***************************************************************************)
\* the rate limiter under a clock that only moves forward
SpecRL == Init /\ [][NextRL]_vars

\* the rate limiter under the wall clock, which may be set back
SpecRLWallClock == Init /\ [][NextRLWallClock]_vars

\* the codec
SpecCodec == Init /\ [][NextCodec]_vars

\* the connection manager: connections, handshakes and read loops
SpecCM == Init /\ [][NextCM]_vars

\* the connection manager with its maintenance and discovery tasks
SpecCMMaintain == Init /\ [][NextCMMaintain]_vars

\* the connection manager with its background tasks and stop()
SpecCMStop == Init /\ [][NextCMStop]_vars

\* the connection manager next to the rate limiter
SpecCMLimiter == Init /\ [][NextCMLimiter]_vars

\* the connection manager with broadcast_message
SpecCMBroadcast == Init /\ [][NextCMBroadcast]_vars

\* inbound sessions that deliver blocks
SpecCMBlocks == Init /\ [][NextCMBlocks]_vars

\* the periodic sync over dialled sessions, under the clock
SpecSync == InitSync /\ [][NextSync]_vars

\* concurrent callers of the sync manager over dialled and accepted sessions
SpecSyncCalls == InitSync /\ [][NextSyncCalls]_vars

\* the error handler
SpecErrors == Init /\ [][NextErrors]_vars

\* handshakes between two nodes whose event loops run every coroutine that
\* is ready to run
SpecHandshake == Init /\ [][NextHandshake]_vars /\ WF_vars(HandshakeSteps)

\* initialize_network on an event loop that runs every coroutine that is
\* ready to run
SpecNetwork == Init /\ [][NextNetwork]_vars /\ WF_vars(InitializeSteps)

(***************************************************************************)
(* Claims about the rate limiter                                           *)
(***************************************************************************)
\* every TokenBucket the limiter holds
AllBuckets ==
    {global_message_bucket, global_bandwidth_bucket}
        \cup {rl_peers[n].message_bucket : n \in DOMAIN rl_peers}
        \cup {rl_peers[n].bandwidth_bucket : n \in DOMAIN rl_peers}

\* C1: for every TokenBucket (per-peer and global), after any sequence of
\* consume calls and any sequence of clock readings, 0 <= tokens <= capacity.
C1_TokensWithinCapacity ==
    \A b \in AllBuckets : 0 <= b.tokens /\ b.tokens <= b.capacity

\* what the claims expect a bucket to hold after the refill at reading t
Refilled(b, t) == Min(b.capacity, b.tokens + (t - b.last_update) * b.fill_rate)

\* bucket b2 is bucket b after consume(n) at reading t that returned ok:
\* refilled first, then n deducted exactly when the refilled amount covers n
ConsumedAs(b, b2, n, t, ok) ==
    /\ b2.last_update = t
    /\ b2.capacity = b.capacity /\ b2.fill_rate = b.fill_rate
    /\ IF Refilled(b, t) >= n
       THEN ok /\ b2.tokens = Refilled(b, t) - n
       ELSE ~ok /\ b2.tokens = Refilled(b, t)

GlobalReasons ==
    {"Global message rate limit exceeded", "Global bandwidth limit exceeded"}

\* C2: consume(n) first refills tokens to min(capacity, tokens + elapsed *
\* fill_rate); then, if tokens >= n, it deducts exactly n and returns true;
\* otherwise it returns false and the tokens stay at the refilled value.
\* Stated of each of the four consume calls of is_allowed, as far as the call
\* gets: 1 from the global message bucket, size from the global bandwidth
\* bucket, 1 from the peer's message bucket, size from its bandwidth bucket.
C2_ConsumeContract ==
    [][\A n \in NodeIds, mt \in RLMessageTypes, s \in Sizes :
        (IsAllowed(n, mt, s) /\ n \in DOMAIN rl_peers
            /\ ~(rl_peers[n].blocked_until > now)) =>
        LET reason == rl_ret'.reason
            gm_ok == reason # "Global message rate limit exceeded"
            gb_ok == gm_ok /\ reason # "Global bandwidth limit exceeded"
            pm_ok == gb_ok /\ reason # "Peer message rate limit exceeded"
            pb_ok == pm_ok /\ reason # "Peer bandwidth limit exceeded"
        IN  /\ ConsumedAs(global_message_bucket, global_message_bucket', 1, now, gm_ok)
            /\ IF gm_ok
               THEN ConsumedAs(global_bandwidth_bucket, global_bandwidth_bucket',
                               s, now, gb_ok)
               ELSE global_bandwidth_bucket' = global_bandwidth_bucket
            /\ IF gb_ok
               THEN ConsumedAs(rl_peers[n].message_bucket,
                               rl_peers'[n].message_bucket, 1, now, pm_ok)
               ELSE rl_peers'[n].message_bucket = rl_peers[n].message_bucket
            /\ IF pm_ok
               THEN ConsumedAs(rl_peers[n].bandwidth_bucket,
                               rl_peers'[n].bandwidth_bucket, s, now, pb_ok)
               ELSE rl_peers'[n].bandwidth_bucket = rl_peers[n].bandwidth_bucket
            /\ rl_ret'.allowed = pb_ok
      ]_vars

\* C2 witness: a consume that was refused (the peer's message bucket, empty
\* after the refill) right after consumes that were granted (both global
\* buckets hold less than their capacity)
C2_Witness ==
    /\ rl_ret.op = "is_allowed"
    /\ rl_ret.reason = "Peer message rate limit exceeded"
    /\ \E n \in DOMAIN rl_peers :
          rl_peers[n].message_bucket.tokens = 0
          /\ rl_peers[n].message_bucket.last_update = now
    /\ global_message_bucket.tokens < global_message_bucket.capacity
    /\ global_bandwidth_bucket.tokens < global_bandwidth_bucket.capacity

\* C3: for every registered peer P and every time t with blocked_until(P) > t,
\* is_allowed(P, type, size) returns (false, reason) for every type and size.
C3_BlockedPeerDenied ==
    [][\A n \in NodeIds, mt \in RLMessageTypes, s \in Sizes :
        (IsAllowed(n, mt, s) /\ n \in DOMAIN rl_peers
            /\ rl_peers[n].blocked_until > now) =>
        (rl_ret'.allowed = FALSE /\ rl_ret'.reason # "None")
      ]_vars

\* C3 witness: is_allowed has just refused a peer whose block has not run out
C3_Witness ==
    /\ rl_ret.op = "is_allowed"
    /\ rl_ret.allowed = FALSE
    /\ rl_ret.reason = "Peer blocked"
    /\ \E n \in DOMAIN rl_peers : rl_peers[n].blocked_until > now

\* C4: when a registered peer with default limits has more than
\* max_requests_per_window allowed requests inside one request window, the
\* peer becomes blocked with blocked_until = now + block_duration.
C4_BlockedAfterLimit ==
    [][\A n \in NodeIds, mt \in RLMessageTypes, s \in Sizes :
        (IsAllowed(n, mt, s) /\ rl_ret'.allowed
            /\ n \in DOMAIN allowed_log'
            /\ Len(allowed_log'[n]) > max_requests_per_window) =>
        rl_peers'[n].blocked_until = now + block_duration
      ]_vars

\* C5 as stated: the first block of a peer sets blocked_until = now +
\* block_duration; blocking a peer that is still blocked doubles the
\* remaining block duration.
C5_ReblockDoublesRemaining ==
    [][\A n \in NodeIds :
        BlockPeer(n) =>
        IF rl_peers[n].blocked_until > now
        THEN rl_peers'[n].blocked_until - now = 2 * (rl_peers[n].blocked_until - now)
        ELSE rl_peers'[n].blocked_until = now + block_duration
      ]_vars

\* C5 as amended: the first block of a peer sets blocked_until = now +
\* block_duration; blocking a peer that is still blocked sets blocked_until =
\* now + 2 * block_duration, whatever was left of the running block.
C5_ReblockTwiceBlockDuration ==
    [][\A n \in NodeIds :
        BlockPeer(n) =>
        IF rl_peers[n].blocked_until > now
        THEN rl_peers'[n].blocked_until = now + 2 * block_duration
        ELSE rl_peers'[n].blocked_until = now + block_duration
      ]_vars

\* C5 witness: a peer has just been blocked while the rest of its running
\* block was shorter than block_duration (only a re-block sets an end later
\* than now + block_duration)
C5_Witness ==
    /\ rl_ret.op = "_block_peer"
    /\ now > 0
    /\ \E n \in DOMAIN rl_peers : rl_peers[n].blocked_until = now + 2 * block_duration

\* C6: when is_allowed is denied because a global bucket cannot supply the
\* tokens, the result is (false, "Global ...") and the peer's message bucket,
\* bandwidth bucket, request history and blocked_until are left unchanged.
C6_GlobalDenialLeavesPeer ==
    [][\A n \in NodeIds, mt \in RLMessageTypes, s \in Sizes :
        (IsAllowed(n, mt, s) /\ n \in DOMAIN rl_peers
            /\ ~(rl_peers[n].blocked_until > now)
            /\ (Refilled(global_message_bucket, now) < 1
                \/ Refilled(global_bandwidth_bucket, now) < s)) =>
        /\ rl_ret'.allowed = FALSE
        /\ rl_ret'.reason \in GlobalReasons
        /\ rl_peers'[n] = rl_peers[n]
      ]_vars

\* C6 witness: the global bandwidth bucket has just refused a frame that the
\* peer's own buckets, both full, would have let through
C6_Witness ==
    /\ rl_ret.op = "is_allowed"
    /\ rl_ret.reason = "Global bandwidth limit exceeded"
    /\ \E n \in DOMAIN rl_peers :
          /\ rl_peers[n].message_bucket.tokens = rl_peers[n].message_bucket.capacity
          /\ rl_peers[n].bandwidth_bucket.tokens = rl_peers[n].bandwidth_bucket.capacity

(***************************************************************************)
(* Claims about the codec                                                  *)
(***************************************************************************)
\* C8: for every valid message M of every message type the wire protocol
\* lists, Protocol.decode_message(Protocol.encode_message(M)) equals M.
C8_RoundTrip ==
    codec_pc = "done_local" => (codec_out.ok /\ codec_out.msg = codec_in)

\* the type tags the decoder knows
KnownTags == {MessageType[m] : m \in DOMAIN MessageType}

HasUnknownTag(p) ==
    p.json /\ "type" \in DOMAIN p.obj /\ p.obj["type"] \notin KnownTags
LacksRequiredField(p) ==
    p.json /\ \E k \in {"type", "data", "sender", "timestamp"} : k \notin DOMAIN p.obj
HasOtherVersion(p) ==
    p.json /\ ("version" \notin DOMAIN p.obj \/ p.obj["version"] # "1.0.0")

\* C9: Protocol.decode_message returns an error outcome (never a Message)
\* for every payload with an unknown type tag, a missing required field
\* (type, data, sender, timestamp), or a version different from "1.0.0".
C9_DecodeRejects ==
    (codec_pc = "done_remote"
        /\ (HasUnknownTag(codec_wire) \/ LacksRequiredField(codec_wire)
            \/ HasOtherVersion(codec_wire)))
    => (~codec_out.ok /\ codec_out.msg = NoMessage)

\* C9 witness: decode_message has raised on a payload whose only fault is
\* its version
C9_Witness ==
    /\ codec_pc = "done_remote"
    /\ HasOtherVersion(codec_wire)
    /\ ~HasUnknownTag(codec_wire)
    /\ ~LacksRequiredField(codec_wire)
    /\ ~codec_out.ok

(***************************************************************************)
(* Claims about the connection manager                                     *)
(***************************************************************************)
\* C7: a frame whose declared 4-byte length exceeds MAX_MESSAGE_SIZE is
\* never accepted: receive_message and perform_handshake reject it with an
\* error before reading any payload byte, and no message is delivered to
\* the dispatcher or registered as a handshake.
C7_OversizedFrameRejected ==
    [][\A c \in ConnIds :
        /\ ((HsReadHeader(c) \/ LoopReadHeader(c))
                /\ conns[c].inbox # << >>
                /\ Head(conns[c].inbox).len > MAX_MESSAGE_SIZE) =>
            /\ conns'[c].pc = "done"
            /\ conns'[c].err # None
            /\ conns'[c].inbox = conns[c].inbox
            /\ conns'[c].last_dispatched = conns[c].last_dispatched
            /\ conns'[c].session = conns[c].session
            /\ cm_peers' = cm_peers
        /\ ((HsReadPayload(c) \/ LoopReadPayload(c)) =>
                Head(conns[c].inbox).len <= MAX_MESSAGE_SIZE)
      ]_vars

\* C7 witness: the read loop of a registered session has ended on the
\* length prefix of an oversized frame, whose payload is still unread
C7_Witness ==
    \E c \in ConnIds :
        /\ conns[c].session
        /\ conns[c].pc = "done"
        /\ conns[c].hdr_read
        /\ conns[c].inbox # << >>
        /\ Head(conns[c].inbox).len > MAX_MESSAGE_SIZE

\* the connections that hold an active session with an open transport for
\* node_id n
ActiveSessions(n) ==
    {c \in ConnIds : conns[c].session /\ conns[c].node_id = n
                     /\ conns[c].is_active /\ conns[c].writer_open}

\* C10: in every reachable state a node has at most one active session
\* (is_active = true with an open transport) per remote node_id.
C10_OneActiveSessionPerNode ==
    \A n \in RemoteIds : Cardinality(ActiveSessions(n)) <= 1

\* the session on connection c is in the session map
Registered(c) == \E n \in DOMAIN cm_peers : cm_peers[n] = c

\* C11: after each reaping pass of maintain_connections, the session map
\* contains no session with is_active = false and no session with
\* now - last_seen > CONNECTION_TIMEOUT, and every session removed by the
\* pass has been closed.
C11_ReapLeavesLiveSessions ==
    [][MaintainReap =>
        /\ \A n \in DOMAIN cm_peers' :
              /\ conns'[cm_peers'[n]].is_active
              /\ ~(now' - conns'[cm_peers'[n]].last_seen > CONNECTION_TIMEOUT)
        /\ \A n \in DOMAIN cm_peers \ DOMAIN cm_peers' :
              /\ ~conns'[cm_peers[n]].is_active
              /\ ~conns'[cm_peers[n]].writer_open
      ]_vars

\* C11 witness: a pass has reaped a session that was last seen more than
\* CONNECTION_TIMEOUT ago and has left a younger one in the map
C11_Witness ==
    /\ stop_pc = "idle" /\ bc.pc = "idle"
    /\ \E c, d \in ConnIds :
          /\ conns[c].session /\ ~Registered(c)
          /\ ~conns[c].is_active /\ ~conns[c].writer_open
          /\ now - conns[c].last_seen > CONNECTION_TIMEOUT
          /\ Registered(d) /\ conns[d].is_active
          /\ now - conns[d].last_seen <= CONNECTION_TIMEOUT

\* C12: every successful receive on a session sets that session's
\* last_seen to the current time (which is what would keep a session that
\* receives a frame at least once every CONNECTION_TIMEOUT seconds from
\* being reaped by maintain_connections).
C12_ReceiveRefreshesLastSeen ==
    [][\A c \in ConnIds :
        (LoopReadPayload(c) /\ decode_message(Head(conns[c].inbox).payload).ok) =>
            conns'[c].last_seen = now
      ]_vars

\* C13: when PeerConnection.send_message fails with an I/O error, the
\* session is closed (is_active = false, writer closed) and a connection
\* error is raised to the caller.  Stated of the sends of discover_peers
\* and of the read loop, whose callers close nothing themselves.
C13_SendFailureClosesSession ==
    [][\A c \in ConnIds :
        (\/ \E n \in DOMAIN cm_peers :
                /\ cm_peers[n] = c
                /\ DiscoverSend(n)
                /\ send_message(conns[c], "PEER_DISCOVERY").raised
         \/ /\ LoopReadPayload(c)
            /\ decode_message(Head(conns[c].inbox).payload).ok
            /\ handle_message(decode_message(Head(conns[c].inbox).payload).msg)
                    # NoMessage
            /\ send_message(conns[c], "HEARTBEAT").raised) =>
        (~conns'[c].is_active /\ ~conns'[c].writer_open)
      ]_vars

\* C14: broadcast_message attempts a send on every session in the map; each
\* session whose send fails is closed and removed from the map, every
\* session whose send succeeds stays registered and active as it was, and a
\* failure on one session does not prevent the send to the others (the
\* call ends with no session of its snapshot left unattempted).
C14_BroadcastConfinesFailures ==
    [][BroadcastDrained =>
        LET c == Head(bc.todo)
        IN  /\ BroadcastSendFails =>
                    (/\ ~conns'[c].is_active
                     /\ ~conns'[c].writer_open
                     /\ \A n \in DOMAIN cm_peers' : cm_peers'[n] # c)
            /\ ~BroadcastSendFails =>
                    (/\ cm_peers' = cm_peers
                     /\ conns'[c].is_active = conns[c].is_active
                     /\ conns'[c].writer_open = conns[c].writer_open)
            /\ bc'.pc \in {"done", "raised"} => bc'.todo = << >>
      ]_vars

\* the connect_to_peer calls for host:port hp that are between adding and
\* discarding their pending_connections entry
DialsInFlight(hp) ==
    {c \in ConnIds : /\ conns[c].role = "dial"
                     /\ conns[c].target = hp
                     /\ conns[c].pc \in {"connecting", "hs_header", "hs_payload"}}

\* C15: for every host:port, at most one connect_to_peer dial is in flight
\* at any time, for any number of concurrent callers.
C15_OneDialInFlight ==
    \A hp \in HostPorts : Cardinality(DialsInFlight(hp)) <= 1

\* C16: when ConnectionManager.stop() completes, the server is closed,
\* every session that was in the session map has is_active = false with its
\* writer closed, and both the session map and pending_connections are
\* empty.
C16_StopClosesAndClears ==
    [][StopPeers =>
        /\ server' # "serving"
        /\ \A c \in ConnIds :
              Registered(c) => (~conns'[c].is_active /\ ~conns'[c].writer_open)
        /\ cm_peers' = EmptyDict
        /\ pending_connections' = {}
        /\ stop_pc' = "done"
      ]_vars

\* C16 witness: stop() has completed on a started manager and has closed a
\* session, with a dial still in flight whose pending entry it cleared
C16_Witness ==
    /\ stop_pc = "done"
    /\ server = "closed"
    /\ cm_peers = EmptyDict
    /\ pending_connections = {}
    /\ \E c, d \in ConnIds :
          /\ conns[c].session /\ ~conns[c].is_active /\ ~conns[c].writer_open
          /\ conns[d].role = "dial" /\ conns[d].pc = "connecting"

\* C17: after ConnectionManager.stop() has completed, the accept,
\* maintenance, discovery and per-session loops no longer act: no session
\* is ever added to the session map, no bootstrap dial is started and no
\* frame is sent.
C17_NothingActsAfterStop ==
    [][(stop_pc = "done" /\ server = "closed") =>
        /\ \A n \in DOMAIN cm_peers' :
              n \in DOMAIN cm_peers /\ cm_peers'[n] = cm_peers[n]
        /\ \A c \in ConnIds, hp \in HostPorts : ~Dial(c, hp)
        /\ \A c \in ConnIds : conns'[c].sent = conns[c].sent
      ]_vars

\* C18: in the connection manager every frame received from a peer is first
\* checked with the rate limiter: a frame the limiter denies (in particular
\* any inbound frame of a peer with blocked_until > now, or of a peer that
\* is not registered) never reaches the dispatcher.
C18_FramesPassRateLimiter ==
    [][\A c \in ConnIds :
        (LoopReadPayload(c) /\ decode_message(Head(conns[c].inbox).payload).ok) =>
            is_allowed(global_message_bucket, global_bandwidth_bucket, rl_peers,
                       conns[c].node_id, Head(conns[c].inbox).len, now).allowed
      ]_vars

\* C19: every registered session, whether created by the accept path or by
\* the dial path, has a read task (which receives each frame the remote
\* peer sends, passes it to the dispatcher and sends back a non-empty
\* reply): a session of the map that is active on an open transport is
\* being served by a read loop.
C19_EverySessionIsRead ==
    \A c \in ConnIds :
        (Registered(c) /\ conns[c].is_active /\ conns[c].writer_open) =>
            conns[c].pc \in {"loop_header", "loop_payload"}

\* C20: for every message whose handler raises an exception (a BLOCK that
\* fails validation, a HANDSHAKE without node_id, a CHAIN_RESPONSE without
\* chain data) and for every message whose type has no handler,
\* handle_message returns an ERROR message carrying the exception text.
\* Stated of the messages the read loop passes to it.
C20_HandlerErrorsAnswered ==
    [][\A c \in ConnIds :
        LET message == decode_message(Head(conns[c].inbox).payload) IN
        (/\ LoopReadPayload(c)
         /\ message.ok
         /\ (handler_raises(message.msg)
                \/ message.msg.type \notin DOMAIN MessageType)) =>
            /\ handle_message(message.msg).type = "ERROR"
            /\ "error" \in DOMAIN handle_message(message.msg).data
      ]_vars

ActiveSessionIds == {n \in DOMAIN cm_peers : conns[cm_peers[n]].is_active}

\* C22: should_sync() returns true if and only if now - last_sync >=
\* PEER_DISCOVERY_INTERVAL and the number of active sessions >=
\* MIN_PEERS_FOR_SYNC and is_syncing is false.
C22_ShouldSyncIff ==
    should_sync(now, sync_state, cm_peers) <=>
        /\ now - sync_state.last_sync >= PEER_DISCOVERY_INTERVAL
        /\ Cardinality(ActiveSessionIds) >= MIN_PEERS_FOR_SYNC
        /\ ~sync_state.is_syncing

\* the callers whose call of sync_blockchain is in progress
RunsInProgress == {r \in RunIds : sync_runs[r].pc = "await"}

\* C23: at most one sync run is in progress at any time, and is_syncing is
\* true exactly while a run of sync_blockchain is in progress.
C23_OneSyncRun ==
    /\ Cardinality(RunsInProgress) <= 1
    /\ sync_state.is_syncing <=> RunsInProgress # {}

\* the step is one on which caller r's call of sync_blockchain returns
SyncReturns(r) ==
    /\ sync_runs'[r].pc = "done"
    /\ sync_runs[r].pc # "done" \/ sync_runs'[r].calls # sync_runs[r].calls

\* C24: every call of sync_blockchain that returns, on every path (no
\* heights collected, already at the maximum height, download, exception),
\* ends with is_syncing = false and last_sync set to the time of its
\* return.
C24_ReturnClearsFlagAndStampsTime ==
    [][\A r \in RunIds :
          SyncReturns(r) =>
              /\ sync_runs'[r].outcome \in {"no_heights", "at_max", "download", "raised"}
              /\ ~sync_state'.is_syncing
              /\ sync_state'.last_sync = now
      ]_vars

\* a call has returned on the download path after the clock has moved
C24_Witness ==
    \E r \in RunIds :
        /\ sync_runs[r].pc = "done"
        /\ sync_runs[r].outcome = "download"
        /\ ~sync_state.is_syncing
        /\ sync_state.last_sync = now
        /\ now > 0

\* C25: in a sync run the download from a peer is begun only if the
\* maximum of the heights the queried peers reported is strictly greater
\* than the local height; the peer chosen is one that reported that
\* maximum, and target_height is set to it; and target_height is set by
\* nothing else.
C25_DownloadFromHighestPeer ==
    [][/\ \A r \in RunIds :
            LET run == sync_runs'[r]
                hs == run.heights
            IN  (SyncReturns(r) /\ run.outcome = "download") =>
                    /\ \A n \in DOMAIN hs : hs[n] <= run.max_height
                    /\ run.sync_peer \in DOMAIN hs
                    /\ hs[run.sync_peer] = run.max_height
                    /\ run.max_height > get_height(blockchain)
                    /\ run.sync_peer \in DOMAIN cm_peers =>
                            sync_state'.target_height = run.max_height
       /\ sync_state'.target_height # sync_state.target_height =>
            \E r \in RunIds : SyncReturns(r) /\ sync_runs'[r].outcome = "download"
      ]_vars

\* two peers reported different heights and the download was begun from
\* the one that reported the greater
C25_Witness ==
    \E r \in RunIds :
        LET run == sync_runs[r] IN
        /\ run.outcome = "download"
        /\ Cardinality(DOMAIN run.heights) = 2
        /\ \E n \in DOMAIN run.heights : run.heights[n] < run.max_height
        /\ sync_state.target_height = run.max_height
        /\ run.max_height > get_height(blockchain)
        /\ get_height(blockchain) > 0

\* C26: a sync run that begins a download from a peer that stays connected
\* and answers what it is asked ends with the local height at the target
\* height, reached by BLOCK_REQUEST/BLOCK_RESPONSE pairs.
C26_DownloadReachesTarget ==
    \A r \in RunIds :
        LET run == sync_runs[r] IN
        (/\ run.pc = "done"
         /\ run.outcome = "download"
         /\ run.sync_peer \in DOMAIN cm_peers
         /\ ~lost(conns[cm_peers[run.sync_peer]])) =>
            get_height(blockchain) = run.max_height

C29_QueryOutlivesMapChanges ==
    \A r \in RunIds :
        sync_runs[r].pc = "done" =>
            /\ sync_runs[r].outcome # "raised"
            /\ sync_runs[r].todo = << >>

(***************************************************************************)
(* Handshake                                                               *)
(***************************************************************************)
\* the handshake of connection c has ended without a session
HandshakeFailed(c) ==
    /\ conns[c].role \in {"accept", "dial"}
    /\ conns[c].pc = "done"
    /\ ~conns[c].session
    /\ conns[c].err # "Failed to connect"

\* C30: if the first frame received during a handshake is malformed
\* (oversized, undecodable, without node_id), the connection is closed and
\* no session is registered for it.
C30_MalformedHandshakeCloses ==
    \A c \in ConnIds :
        HandshakeFailed(c) =>
            /\ ~conns[c].writer_open
            /\ ~Registered(c)

(***************************************************************************)
(* Sends of several tasks on one session                                   *)
(***************************************************************************)
\* the writes s are whole frames: each length is followed by the data of
\* the same message
WholeFrames(s) ==
    /\ Len(s) % 2 = 0
    /\ \A i \in 1..Len(s) :
          IF i % 2 = 1
          THEN s[i].part = "length" /\ s[i + 1].of = s[i].of
          ELSE s[i].part = "data"

\* the messages of the frames s, in their order
FrameTypes(s) == [i \in 1..(Len(s) \div 2) |-> s[2 * i].of]

\* C31: within one session every send_message call puts its frame behind
\* all that was written before, as a length followed by its own data with
\* nothing of another message in between, so the frames stand on the
\* transport in the order of the calls, whichever task made them.
C31_FramesInSendOrder ==
    [][\A c \in ConnIds :
          LET old == conns[c].wire
              new == conns'[c].wire
          IN  /\ Len(new) >= Len(old)
              /\ SubSeq(new, 1, Len(old)) = old
              /\ WholeFrames(SubSeq(new, Len(old) + 1, Len(new)))
              /\ FrameTypes(new) = conns'[c].sent]_vars

\* the read loop has replied on a session while a broadcast waits in the
\* drain of its send on the same session
C31_Witness ==
    \E c \in ConnIds :
        /\ bc.pc = "running"
        /\ Head(bc.todo) = c
        /\ Len(conns[c].sent) >= 3
        /\ conns[c].sent[Len(conns[c].sent) - 1] = "BLOCK"
        /\ conns[c].sent[Len(conns[c].sent)] = "HEARTBEAT"

(***************************************************************************)
(* Error handler                                                           *)
(***************************************************************************)
\* C34: handle_error returns without raising, counts the error, records it
\* in the history, and calls every handler registered for its type, also
\* the handlers behind one that raised.
C34_HandlerErrorsContained ==
    [][eh'.handled = eh.handled + 1 =>
          LET error == eh'.error_history[Len(eh'.error_history)] IN
          /\ eh'.outcome = "returned"
          /\ eh'.error_counts[error.error_type] =
                 eh.error_counts[error.error_type] + 1
          /\ eh'.called = eh.error_handlers[error.error_type]]_vars

(***************************************************************************)
(* Start-up                                                                *)
(***************************************************************************)
\* C33: when the server binds, initialize_network goes on from the start
\* of the connection manager to the start of the sync manager and returns
\* the components to its caller.
C33_InitializeReturns ==
    (net.pc = "serve_forever") ~> (net.pc = "returned")

(***************************************************************************)
(* Handshake between two nodes                                             *)
(***************************************************************************)
\* both ends of connection c have completed the handshake, each having
\* written one HANDSHAKE frame and read one
HandshakeCompleted(c) ==
    /\ conns[c].session
    /\ conns[c].remote_pc = "registered"
    /\ conns[c].sent = <<"HANDSHAKE">>
    /\ conns[c].rx_count = 1
    /\ conns[c].inbox = << >>

\* C36: a handshake between two nodes that both run perform_handshake
\* completes on both sides, each side having sent exactly one HANDSHAKE
\* frame and received exactly one; neither waits for the other to send
\* first.
C36_HandshakeCompletes ==
    \A c \in ConnIds : (conns[c].pc = "hs_header") ~> HandshakeCompleted(c)

\* a dialled and an accepted connection have both completed the handshake
C36_Witness ==
    \E c, d \in ConnIds :
        /\ conns[c].role = "dial" /\ HandshakeCompleted(c)
        /\ conns[d].role = "accept" /\ HandshakeCompleted(d)

(***************************************************************************)
(* Sessions whose read loop has ended                                      *)
(***************************************************************************)
\* C38: every session of the map that is active has an open transport: a
\* session whose read loop has ended is inactive and out of the map.
C38_ActiveSessionsAreOpen ==
    \A n \in DOMAIN cm_peers :
        LET conn == conns[cm_peers[n]] IN
        /\ conn.is_active => conn.writer_open
        /\ conn.role = "accept" => conn.pc # "done"

(***************************************************************************)
(* Readers of one transport                                                *)
(***************************************************************************)
\* C39: the reply to a CHAIN_REQUEST of the sync manager is received by the
\* sync manager: the read loop of the session never takes a CHAIN_RESPONSE
\* a peer sent in answer to it.
C39_RepliesReachSyncManager ==
    \A c \in ConnIds : conns[c].last_dispatched.type # "CHAIN_RESPONSE"

(***************************************************************************)
(* Broadcast next to the tasks that change the session map                 *)
(***************************************************************************)
\* C40: broadcast_message never raises, whatever maintenance or a new
\* handshake did to the session map while it waited in a send, and the only
\* entry it removes from the map is that of the session whose send failed,
\* never a newer session registered under the same node_id.
C40_BroadcastToleratesMapChanges ==
    [][BroadcastDrained =>
        /\ bc'.pc # "raised"
        /\ \A n \in DOMAIN cm_peers \ DOMAIN cm_peers' :
              cm_peers[n] = Head(bc.todo)
      ]_vars

====
